---- MODULE Spec2Model ----
(***************************************************************************)
(* Model of the Symbol Table Manager (src/symbol_table.py), of the parser   *)
(* that drives it (src/parser.py) and of the lexer (src/lexer.py).         *)
(*                                                                         *)
(* Spec is the table called directly, in any order; ParserSpec is one run  *)
(* of Parser.parse() on a token list, a step per loop iteration or call;   *)
(* ProgramSpec is the same run, whole programs among the token lists;      *)
(* LexerSpec is one run of Lexer.tokenize(), a step per token.             *)
(*                                                                         *)
(* Encoding of Python values:                                              *)
(*   - Optional[T]: None is the empty tuple, a present value v is <<v>>;   *)
(*   - a dict is a function whose DOMAIN is the set of its keys; dicts are  *)
(*     values: a dict passed as 'attributes' is an object no other call    *)
(*     passes, so no two entries share one attributes dict;                *)
(*   - **kwargs is a record with one Optional field per keyword the code   *)
(*     reads ('key' in kwargs  <=>  the field is not None);                *)
(*   - str is a TLA+ string, ".".join and f"block{n}" are computed with    *)
(*     string concatenation, so equal paths are equal strings.             *)
(*   - a list is a sequence; list(d.values()) holds each value of d once,  *)
(*     the order of the values in it (insertion order) is not modelled.    *)
(***************************************************************************)
EXTENDS Integers, Sequences, FiniteSets, TLC

\* the SymbolTable instance, and the last call made and what it returned
VARIABLES table, current_scope, scope_stack, scope_counter, op, ret

\* the Parser instance that owns the table (src/parser.py), and frames, the
\* stack of its active calls; without a parser the table is called directly
VARIABLES tokens, position, errors, frames

\* the Lexer instance (src/lexer.py), None where no source text is tokenized
VARIABLE lexer

\* the fields of the Parser and its call stack
pvars == <<tokens, position, errors, frames>>

vars ==
  <<table, current_scope, scope_stack, scope_counter, op, ret, pvars, lexer>>

\* ---------------------------------------------------------------- bounds
MaxDepth == 3
MaxCounter == 2
MaxSymbols == 2
MaxScopes == 3
MaxTokens == 4

\* the source texts of the lexer have at most MaxSource characters
MaxSource == 4

\* ------------------------------------------------------ Python encodings
None == <<>>
Some(v) == <<v>>
EmptyDict == <<>>

\* ------------------------------------------------------------ input sets
Names == {"x", "y"}

\* the name passed to enter_scope(name); it is one that enter_scope() without
\* a name synthesizes too
ScopeNames == {"block1"}

NoInsertKwargs == [initialized |-> None, constant |-> None, attributes |-> None]

InsertCalls ==
  { [symbol_type |-> "int", line_number |-> 1, value |-> Some(10),
     kwargs |-> NoInsertKwargs],
    [symbol_type |-> "int", line_number |-> 1, value |-> None,
     kwargs |-> NoInsertKwargs] }

NoUpdateKwargs ==
  [value |-> None, initialized |-> None, used |-> None, constant |-> None,
   attributes |-> None]

UpdateCalls ==
  { NoUpdateKwargs,
    [NoUpdateKwargs EXCEPT !.value = Some(Some(10)), !.initialized = Some(TRUE)],
    [NoUpdateKwargs EXCEPT !.used = Some(FALSE)] }

\* ------------------------------------------------------------- the object
\* The SymbolTable instance as one value, so that the methods are operators
\* from an instance to the instance after the call and the value returned.
Self ==
  [table |-> table, current_scope |-> current_scope,
   scope_stack |-> scope_stack, scope_counter |-> scope_counter]

\* SymbolTable.__init__
NewSymbolTable ==
  [table |-> EmptyDict, current_scope |-> "global",
   scope_stack |-> <<"global">>, scope_counter |-> 0]

\* ".".join(seq)
RECURSIVE Join(_)
Join(seq) ==
  IF Len(seq) = 0 THEN ""
  ELSE IF Len(seq) = 1 THEN seq[1]
  ELSE Join(SubSeq(seq, 1, Len(seq) - 1)) \o "." \o seq[Len(seq)]

\* seq[-1]
Top(seq) == seq[Len(seq)]

\* SymbolTable._get_full_scope_path
get_full_scope_path(self) == Join(self.scope_stack)

\* dict with d[k] = v set (the key is added when it is new)
DictSet(d, k, v) ==
  [j \in DOMAIN d \cup {k} |-> IF j = k THEN v ELSE d[j]]

\* dict after del d[k]
DictDel(d, k) == [j \in DOMAIN d \ {k} |-> d[j]]

\* dict after d.update(e)
DictUpdate(d, e) ==
  [j \in DOMAIN d \cup DOMAIN e |-> IF j \in DOMAIN e THEN e[j] ELSE d[j]]

\* kwargs.get(key, default) for an Optional field
KwGet(field, default) == IF field # None THEN field[1] ELSE default

\* mutant: the dataclass default of used is True
SymbolEntry_used_by_default(name, symbol_type, scope, line_number, value, initialized, constant, attributes) ==
  [name |-> name, symbol_type |-> symbol_type, scope |-> scope,
   line_number |-> line_number, value |-> value, initialized |-> initialized,
   used |-> TRUE, constant |-> constant, attributes |-> attributes]

\* SymbolEntry(...) as built by insert
SymbolEntry(name, symbol_type, scope, line_number, value, initialized, constant, attributes) ==
  [name |-> name, symbol_type |-> symbol_type, scope |-> scope,
   line_number |-> line_number, value |-> value, initialized |-> initialized,
   used |-> FALSE, constant |-> constant, attributes |-> attributes]

\* mutant: no duplicate check, a second declaration overwrites the first
insert_overwriting(self, name, symbol_type, line_number, value, kwargs) ==
  LET scope == Join(self.scope_stack)
      t1 == IF scope \notin DOMAIN self.table
            THEN DictSet(self.table, scope, EmptyDict)
            ELSE self.table
      symbol == SymbolEntry(name, symbol_type, scope, line_number, value,
                            KwGet(kwargs.initialized, value # None),
                            KwGet(kwargs.constant, FALSE),
                            KwGet(kwargs.attributes, EmptyDict))
  IN [self |-> [self EXCEPT !.table =
                  DictSet(t1, scope, DictSet(t1[scope], name, symbol))],
      ret |-> TRUE]

\* mutant: an explicit 'initialized' flag is ignored
insert_ignoring_initialized_flag(self, name, symbol_type, line_number, value, kwargs) ==
  LET scope == get_full_scope_path(self)
  IN IF scope \in DOMAIN self.table /\ name \in DOMAIN self.table[scope]
     THEN [self |-> self, ret |-> FALSE]
     ELSE LET t1 == IF scope \notin DOMAIN self.table
                    THEN DictSet(self.table, scope, EmptyDict)
                    ELSE self.table
              symbol == SymbolEntry(name, symbol_type, scope, line_number,
                                    value, value # None,
                                    KwGet(kwargs.constant, FALSE),
                                    KwGet(kwargs.attributes, EmptyDict))
          IN [self |-> [self EXCEPT !.table =
                          DictSet(t1, scope, DictSet(t1[scope], name, symbol))],
              ret |-> TRUE]

\* mutant: the entry records the attribute current_scope as its scope
insert_using_current_scope(self, name, symbol_type, line_number, value, kwargs) ==
  LET scope == get_full_scope_path(self)
  IN IF scope \in DOMAIN self.table /\ name \in DOMAIN self.table[scope]
     THEN [self |-> self, ret |-> FALSE]
     ELSE LET t1 == IF scope \notin DOMAIN self.table
                    THEN DictSet(self.table, scope, EmptyDict)
                    ELSE self.table
              initialized == KwGet(kwargs.initialized, value # None)
              constant == KwGet(kwargs.constant, FALSE)
              symbol == SymbolEntry(name, symbol_type, self.current_scope, line_number,
                                    value, initialized, constant,
                                    KwGet(kwargs.attributes, EmptyDict))
          IN [self |-> [self EXCEPT !.table =
                          DictSet(t1, scope, DictSet(t1[scope], name, symbol))],
              ret |-> TRUE]

\* SymbolTable.insert
insert(self, name, symbol_type, line_number, value, kwargs) ==
  LET scope == get_full_scope_path(self)
  IN IF scope \in DOMAIN self.table /\ name \in DOMAIN self.table[scope]
     THEN [self |-> self, ret |-> FALSE]
     ELSE LET t1 == IF scope \notin DOMAIN self.table
                    THEN DictSet(self.table, scope, EmptyDict)
                    ELSE self.table
              initialized == KwGet(kwargs.initialized, value # None)
              constant == KwGet(kwargs.constant, FALSE)
              symbol == SymbolEntry(name, symbol_type, scope, line_number,
                                    value, initialized, constant,
                                    KwGet(kwargs.attributes, EmptyDict))
          IN [self |-> [self EXCEPT !.table =
                          DictSet(t1, scope, DictSet(t1[scope], name, symbol))],
              ret |-> TRUE]

\* mutant: the paths in outermost-first order
scopes_to_search_outermost_first(self) ==
  [k \in 1..Len(self.scope_stack) |-> Join(SubSeq(self.scope_stack, 1, k))]

\* lookup, lines 133-136: the paths searched, innermost first
scopes_to_search(self) ==
  [k \in 1..Len(self.scope_stack) |->
     Join(SubSeq(self.scope_stack, 1, Len(self.scope_stack) - k + 1))]

\* lookup, lines 138-145: index in paths of the first path binding name, from k
\* on; 0 when there is none
RECURSIVE FirstMatch(_, _, _, _)
FirstMatch(tbl, paths, name, k) ==
  IF k > Len(paths) THEN 0
  ELSE IF paths[k] \in DOMAIN tbl /\ name \in DOMAIN tbl[paths[k]] THEN k
  ELSE FirstMatch(tbl, paths, name, k + 1)

\* mutant: a name found in no active scope is searched in every bucket
lookup_falling_back_to_any_bucket(self, name, scope) ==
  IF scope # None
  THEN IF scope[1] \in DOMAIN self.table /\ name \in DOMAIN self.table[scope[1]]
       THEN [self |-> self, ret |-> Some(self.table[scope[1]][name]),
             ref |-> Some(<<scope[1], name>>)]
       ELSE [self |-> self, ret |-> None, ref |-> None]
  ELSE LET paths == scopes_to_search(self)
           k == FirstMatch(self.table, paths, name, 1)
           others == {p \in DOMAIN self.table : name \in DOMAIN self.table[p]}
           found == IF k # 0 THEN {paths[k]} ELSE others
       IN IF found = {}
          THEN [self |-> self, ret |-> None, ref |-> None]
          ELSE LET q == CHOOSE p \in found : TRUE
                   symbol == [self.table[q][name] EXCEPT !.used = TRUE]
               IN [self |-> [self EXCEPT !.table[q][name] = symbol],
                   ret |-> Some(symbol), ref |-> Some(<<q, name>>)]

\* mutant: a scoped lookup marks the entry it returns
lookup_scoped_marking_used(self, name, scope) ==
  LET paths == IF scope # None THEN <<scope[1]>> ELSE scopes_to_search(self)
      k == FirstMatch(self.table, paths, name, 1)
  IN IF k = 0
     THEN [self |-> self, ret |-> None, ref |-> None]
     ELSE LET symbol == [self.table[paths[k]][name] EXCEPT !.used = TRUE]
          IN [self |-> [self EXCEPT !.table[paths[k]][name] = symbol],
              ret |-> Some(symbol), ref |-> Some(<<paths[k], name>>)]

\* SymbolTable.lookup; ref is the place <<path, name>> of the returned object
lookup(self, name, scope) ==
  IF scope # None
  THEN IF scope[1] \in DOMAIN self.table /\ name \in DOMAIN self.table[scope[1]]
       THEN [self |-> self, ret |-> Some(self.table[scope[1]][name]),
             ref |-> Some(<<scope[1], name>>)]
       ELSE [self |-> self, ret |-> None, ref |-> None]
  ELSE LET paths == scopes_to_search(self)
           k == FirstMatch(self.table, paths, name, 1)
       IN IF k = 0
          THEN [self |-> self, ret |-> None, ref |-> None]
          ELSE LET symbol == [self.table[paths[k]][name] EXCEPT !.used = TRUE]
               IN [self |-> [self EXCEPT !.table[paths[k]][name] = symbol],
                   ret |-> Some(symbol), ref |-> Some(<<paths[k], name>>)]

\* mutant: a supplied 'used' keyword is ignored
ApplyKwargs_ignoring_used(symbol, kwargs) ==
  LET s1 == IF kwargs.value # None
            THEN [symbol EXCEPT !.value = kwargs.value[1]] ELSE symbol
      s2 == IF kwargs.initialized # None
            THEN [s1 EXCEPT !.initialized = kwargs.initialized[1]] ELSE s1
      s4 == IF kwargs.constant # None
            THEN [s2 EXCEPT !.constant = kwargs.constant[1]] ELSE s2
  IN IF kwargs.attributes # None
     THEN [s4 EXCEPT !.attributes = DictUpdate(s4.attributes, kwargs.attributes[1])]
     ELSE s4

\* mutant: a supplied value also marks the entry initialized
ApplyKwargs_value_initializes(symbol, kwargs) ==
  LET s1 == IF kwargs.value # None
            THEN [symbol EXCEPT !.value = kwargs.value[1], !.initialized = TRUE]
            ELSE symbol
      s2 == IF kwargs.initialized # None
            THEN [s1 EXCEPT !.initialized = kwargs.initialized[1]] ELSE s1
      s3 == IF kwargs.used # None
            THEN [s2 EXCEPT !.used = kwargs.used[1]] ELSE s2
      s4 == IF kwargs.constant # None
            THEN [s3 EXCEPT !.constant = kwargs.constant[1]] ELSE s3
  IN IF kwargs.attributes # None
     THEN [s4 EXCEPT !.attributes = DictUpdate(s4.attributes, kwargs.attributes[1])]
     ELSE s4

\* update, lines 162-172: the attribute assignments
ApplyKwargs(symbol, kwargs) ==
  LET s1 == IF kwargs.value # None
            THEN [symbol EXCEPT !.value = kwargs.value[1]] ELSE symbol
      s2 == IF kwargs.initialized # None
            THEN [s1 EXCEPT !.initialized = kwargs.initialized[1]] ELSE s1
      s3 == IF kwargs.used # None
            THEN [s2 EXCEPT !.used = kwargs.used[1]] ELSE s2
      s4 == IF kwargs.constant # None
            THEN [s3 EXCEPT !.constant = kwargs.constant[1]] ELSE s3
  IN IF kwargs.attributes # None
     THEN [s4 EXCEPT !.attributes = DictUpdate(s4.attributes, kwargs.attributes[1])]
     ELSE s4

\* mutant: a name that does not resolve is declared in the current scope
update_declaring_missing(self, name, kwargs) ==
  LET r == lookup(self, name, None)
  IN IF r.ret = None
     THEN [self |-> insert(self, name, "int", 0, None, NoInsertKwargs).self,
           ret |-> FALSE]
     ELSE LET p == r.ref[1][1]
          IN [self |-> [r.self EXCEPT !.table[p][name] =
                          ApplyKwargs(r.self.table[p][name], kwargs)],
              ret |-> TRUE]

\* SymbolTable.update
update(self, name, kwargs) ==
  LET r == lookup(self, name, None)
  IN IF r.ret = None
     THEN [self |-> r.self, ret |-> FALSE]
     ELSE LET p == r.ref[1][1]
          IN [self |-> [r.self EXCEPT !.table[p][name] =
                          ApplyKwargs(r.self.table[p][name], kwargs)],
              ret |-> TRUE]

\* mutant: without a scope argument the innermost binding is deleted
delete_resolving(self, name, scope) ==
  LET paths == IF scope # None THEN <<scope[1]>> ELSE scopes_to_search(self)
      k == FirstMatch(self.table, paths, name, 1)
  IN IF k # 0
     THEN [self |-> [self EXCEPT !.table[paths[k]] =
                       DictDel(self.table[paths[k]], name)],
           ret |-> TRUE]
     ELSE [self |-> self, ret |-> FALSE]

\* SymbolTable.delete
delete(self, name, scope) ==
  LET target_scope == IF scope # None THEN scope[1] ELSE get_full_scope_path(self)
  IN IF target_scope \in DOMAIN self.table /\ name \in DOMAIN self.table[target_scope]
     THEN [self |-> [self EXCEPT !.table[target_scope] =
                       DictDel(self.table[target_scope], name)],
           ret |-> TRUE]
     ELSE [self |-> self, ret |-> FALSE]

\* f"block{n}"
BlockName(n) == "block" \o ToString(n)

\* mutant: the segment is returned instead of the path
enter_scope_returning_segment(self, scope_name) ==
  LET s1 == IF scope_name = None
            THEN [self EXCEPT !.scope_counter = self.scope_counter + 1]
            ELSE self
      seg == IF scope_name = None THEN BlockName(s1.scope_counter) ELSE scope_name[1]
      s2 == [s1 EXCEPT !.scope_stack = Append(s1.scope_stack, seg)]
      new_scope == get_full_scope_path(s2)
      s3 == IF new_scope \notin DOMAIN s2.table
            THEN [s2 EXCEPT !.table = DictSet(s2.table, new_scope, EmptyDict)]
            ELSE s2
  IN [self |-> s3, ret |-> seg]

\* mutant: an anonymous block is numbered by its nesting depth
enter_scope_numbered_by_depth(self, scope_name) ==
  LET s1 == IF scope_name = None
            THEN [self EXCEPT !.scope_counter = self.scope_counter + 1]
            ELSE self
      seg == IF scope_name = None THEN BlockName(Len(self.scope_stack))
             ELSE scope_name[1]
      s2 == [s1 EXCEPT !.scope_stack = Append(s1.scope_stack, seg)]
      new_scope == get_full_scope_path(s2)
      s3 == IF new_scope \notin DOMAIN s2.table
            THEN [s2 EXCEPT !.table = DictSet(s2.table, new_scope, EmptyDict)]
            ELSE s2
  IN [self |-> s3, ret |-> new_scope]

\* mutant: the scope entered always starts with an empty bucket
enter_scope_resetting_bucket(self, scope_name) ==
  LET s1 == IF scope_name = None
            THEN [self EXCEPT !.scope_counter = self.scope_counter + 1]
            ELSE self
      seg == IF scope_name = None THEN BlockName(s1.scope_counter) ELSE scope_name[1]
      s2 == [s1 EXCEPT !.scope_stack = Append(s1.scope_stack, seg)]
      new_scope == get_full_scope_path(s2)
      s3 == [s2 EXCEPT !.table = DictSet(s2.table, new_scope, EmptyDict)]
  IN [self |-> s3, ret |-> new_scope]

\* mutant: the attribute current_scope follows the scope entered
enter_scope_setting_current_scope(self, scope_name) ==
  LET s1 == IF scope_name = None
            THEN [self EXCEPT !.scope_counter = self.scope_counter + 1]
            ELSE self
      seg == IF scope_name = None THEN BlockName(s1.scope_counter) ELSE scope_name[1]
      s2 == [s1 EXCEPT !.scope_stack = Append(s1.scope_stack, seg)]
      new_scope == get_full_scope_path(s2)
      s3 == IF new_scope \notin DOMAIN s2.table
            THEN [s2 EXCEPT !.table = DictSet(s2.table, new_scope, EmptyDict)]
            ELSE s2
  IN [self |-> [s3 EXCEPT !.current_scope = new_scope], ret |-> new_scope]

\* SymbolTable.enter_scope
enter_scope(self, scope_name) ==
  LET s1 == IF scope_name = None
            THEN [self EXCEPT !.scope_counter = self.scope_counter + 1]
            ELSE self
      seg == IF scope_name = None THEN BlockName(s1.scope_counter) ELSE scope_name[1]
      s2 == [s1 EXCEPT !.scope_stack = Append(s1.scope_stack, seg)]
      new_scope == get_full_scope_path(s2)
      s3 == IF new_scope \notin DOMAIN s2.table
            THEN [s2 EXCEPT !.table = DictSet(s2.table, new_scope, EmptyDict)]
            ELSE s2
  IN [self |-> s3, ret |-> new_scope]

\* mutant: no guard for the root scope
exit_scope_unguarded(self) ==
  [self |-> [self EXCEPT !.scope_stack =
               SubSeq(self.scope_stack, 1, Len(self.scope_stack) - 1)],
   ret |-> IF Len(self.scope_stack) = 0 THEN None
           ELSE Some(self.scope_stack[Len(self.scope_stack)])]

\* mutant: the bucket of the popped scope is purged
exit_scope_purging(self) ==
  IF Len(self.scope_stack) <= 1
  THEN [self |-> self, ret |-> None]
  ELSE [self |-> [self EXCEPT
                    !.scope_stack =
                      SubSeq(self.scope_stack, 1, Len(self.scope_stack) - 1),
                    !.table = [p \in DOMAIN self.table \ {Join(self.scope_stack)}
                                 |-> self.table[p]]],
        ret |-> Some(self.scope_stack[Len(self.scope_stack)])]

\* mutant: reports the innermost segment but leaves it on the stack
exit_scope_without_pop(self) ==
  IF Len(self.scope_stack) <= 1
  THEN [self |-> self, ret |-> None]
  ELSE [self |-> self, ret |-> Some(self.scope_stack[Len(self.scope_stack)])]

\* SymbolTable.exit_scope
exit_scope(self) ==
  IF Len(self.scope_stack) <= 1
  THEN [self |-> self, ret |-> None]
  ELSE [self |-> [self EXCEPT !.scope_stack =
                    SubSeq(self.scope_stack, 1, Len(self.scope_stack) - 1)],
        ret |-> Some(self.scope_stack[Len(self.scope_stack)])]

\* list(d.values()) restricted to the keys in keys
RECURSIVE Values(_, _)
Values(d, keys) ==
  IF keys = {} THEN <<>>
  ELSE LET k == CHOOSE j \in keys : TRUE
       IN <<d[k]>> \o Values(d, keys \ {k})

\* mutant: a scope without a bucket gets an empty one
get_symbols_in_scope_creating_bucket(self, scope) ==
  LET target_scope == IF scope # None THEN scope[1] ELSE get_full_scope_path(self)
  IN IF target_scope \in DOMAIN self.table
     THEN [self |-> self,
           ret |-> Values(self.table[target_scope], DOMAIN self.table[target_scope])]
     ELSE [self |-> [self EXCEPT !.table = DictSet(self.table, target_scope, EmptyDict)],
           ret |-> <<>>]

\* SymbolTable.get_symbols_in_scope
get_symbols_in_scope(self, scope) ==
  LET target_scope == IF scope # None THEN scope[1] ELSE get_full_scope_path(self)
  IN IF target_scope \in DOMAIN self.table
     THEN [self |-> self,
           ret |-> Values(self.table[target_scope], DOMAIN self.table[target_scope])]
     ELSE [self |-> self, ret |-> <<>>]

\* get_all_symbols, lines 254-256: all_symbols after the loop over the buckets
RECURSIVE Extend(_, _)
Extend(tbl, paths) ==
  IF paths = {} THEN <<>>
  ELSE LET p == CHOOSE q \in paths : TRUE
       IN Values(tbl[p], DOMAIN tbl[p]) \o Extend(tbl, paths \ {p})

\* mutant: only the buckets of the active scopes are flattened
get_all_symbols_of_active_scopes(self) ==
  [self |-> self,
   ret |-> Extend(self.table,
                  {Join(SubSeq(self.scope_stack, 1, i)) : i \in 1..Len(self.scope_stack)}
                    \cap DOMAIN self.table)]

\* SymbolTable.get_all_symbols
get_all_symbols(self) ==
  [self |-> self, ret |-> Extend(self.table, DOMAIN self.table)]

\* sum(f[p] for p in paths)
RECURSIVE Sum(_, _)
Sum(f, paths) ==
  IF paths = {} THEN 0
  ELSE LET p == CHOOSE q \in paths : TRUE
       IN f[p] + Sum(f, paths \ {p})

\* mutant: only the scopes on the active stack are aggregated
get_statistics_of_active_scopes(self) ==
  LET t == self.table
      live == {Join(SubSeq(self.scope_stack, 1, i)) : i \in 1..Len(self.scope_stack)}
                \cap DOMAIN t
      total_symbols == Sum([p \in live |-> Cardinality(DOMAIN t[p])], live)
      initialized_count ==
        Sum([p \in live |-> Cardinality({n \in DOMAIN t[p] : t[p][n].initialized})], live)
      used_count ==
        Sum([p \in live |-> Cardinality({n \in DOMAIN t[p] : t[p][n].used})], live)
  IN [total_symbols |-> total_symbols,
      total_scopes |-> Cardinality(live),
      initialized |-> initialized_count,
      used |-> used_count,
      unused |-> total_symbols - used_count]

\* SymbolTable.get_statistics
get_statistics(self) ==
  LET t == self.table
      total_symbols ==
        Sum([p \in DOMAIN t |-> Cardinality(DOMAIN t[p])], DOMAIN t)
      initialized_count ==
        Sum([p \in DOMAIN t |-> Cardinality({n \in DOMAIN t[p] : t[p][n].initialized})],
            DOMAIN t)
      used_count ==
        Sum([p \in DOMAIN t |-> Cardinality({n \in DOMAIN t[p] : t[p][n].used})],
            DOMAIN t)
  IN [total_symbols |-> total_symbols,
      total_scopes |-> Cardinality(DOMAIN t),
      initialized |-> initialized_count,
      used |-> used_count,
      unused |-> total_symbols - used_count]

\* ------------------------------------------------------------ the machine
\* the instance after a call becomes the state
Becomes(self) ==
  /\ table' = self.table
  /\ current_scope' = self.current_scope
  /\ scope_stack' = self.scope_stack
  /\ scope_counter' = self.scope_counter

Init ==
  /\ table = NewSymbolTable.table
  /\ current_scope = NewSymbolTable.current_scope
  /\ scope_stack = NewSymbolTable.scope_stack
  /\ scope_counter = NewSymbolTable.scope_counter
  /\ op = [name |-> "__init__"]
  /\ ret = None
  /\ tokens = <<>>
  /\ position = 0
  /\ errors = <<>>
  /\ frames = <<>>
  /\ lexer = None

Insert ==
  \E name \in Names, c \in InsertCalls :
    LET r == insert(Self, name, c.symbol_type, c.line_number, c.value, c.kwargs)
    IN /\ r.ret => get_statistics(Self).total_symbols < MaxSymbols
       /\ Becomes(r.self)
       /\ op' = [name |-> "insert", sym |-> name]
       /\ ret' = r.ret
       /\ UNCHANGED <<pvars, lexer>>

\* the scope arguments tried by scoped lookup and delete
ScopeArgs == DOMAIN table \cup {"global.nowhere"}

Lookup ==
  \E name \in Names, scope \in {None} \cup {Some(p) : p \in ScopeArgs} :
    LET r == lookup(Self, name, scope)
    IN /\ Becomes(r.self)
       /\ op' = [name |-> "lookup", sym |-> name, resolving |-> (scope = None)]
       /\ ret' = r.ret
       /\ UNCHANGED <<pvars, lexer>>

Update ==
  \E name \in Names, kwargs \in UpdateCalls :
    LET r == update(Self, name, kwargs)
    IN /\ Becomes(r.self)
       /\ op' = [name |-> "update", sym |-> name, kwargs |-> kwargs]
       /\ ret' = r.ret
       /\ UNCHANGED <<pvars, lexer>>

Delete ==
  \E name \in Names, scope \in {None} \cup {Some(p) : p \in ScopeArgs} :
    LET r == delete(Self, name, scope)
    IN /\ Becomes(r.self)
       /\ op' = [name |-> "delete", sym |-> name]
       /\ ret' = r.ret
       /\ UNCHANGED <<pvars, lexer>>

EnterScope ==
  \E scope_name \in {None} \cup {Some(n) : n \in ScopeNames} :
    LET r == enter_scope(Self, scope_name)
    IN /\ Len(scope_stack) < MaxDepth
       /\ scope_name = None => scope_counter < MaxCounter
       /\ Cardinality(DOMAIN r.self.table) <= MaxScopes
       /\ Becomes(r.self)
       /\ op' = [name |-> "enter_scope"]
       /\ ret' = r.ret
       /\ UNCHANGED <<pvars, lexer>>

ExitScope ==
  LET r == exit_scope(Self)
  IN /\ Becomes(r.self)
     /\ op' = [name |-> "exit_scope"]
     /\ ret' = r.ret
     /\ UNCHANGED <<pvars, lexer>>

GetStatistics ==
  /\ UNCHANGED <<table, current_scope, scope_stack, scope_counter>>
  /\ op' = [name |-> "get_statistics"]
  /\ ret' = get_statistics(Self)
  /\ UNCHANGED <<pvars, lexer>>

GetSymbolsInScope ==
  \E scope \in {None} \cup {Some(p) : p \in ScopeArgs} :
    LET r == get_symbols_in_scope(Self, scope)
    IN /\ Becomes(r.self)
       /\ op' = [name |-> "get_symbols_in_scope", scope |-> scope]
       /\ ret' = r.ret
       /\ UNCHANGED <<pvars, lexer>>

GetAllSymbols ==
  LET r == get_all_symbols(Self)
  IN /\ Becomes(r.self)
     /\ op' = [name |-> "get_all_symbols"]
     /\ ret' = r.ret
     /\ UNCHANGED <<pvars, lexer>>

Next ==
  \/ Insert
  \/ Lookup
  \/ Update
  \/ Delete
  \/ EnterScope
  \/ ExitScope
  \/ GetStatistics
  \/ GetSymbolsInScope
  \/ GetAllSymbols

Spec == Init /\ [][Next]_vars

\* ================================================================ parser
\* ------------------------------------------------------------- the tokens
\* Token(type, value, line_number), src/lexer.py
Token(type, value, line_number) ==
  [type |-> type, value |-> value, line_number |-> line_number]

\* the type keywords of parse_type and parse_statement
TypeKeywords == {"int", "float", "string", "bool"}

\* the <<type, value>> pairs the token lists are made of
Lexemes ==
  { <<"KEYWORD", "int">>, <<"IDENTIFIER", "x">>, <<"OPERATOR", "=">>,
    <<"NUMBER", "5">>, <<"DELIMITER", ";">>, <<"DELIMITER", "{">>,
    <<"DELIMITER", "}">> }

\* Lexer.tokenize ends every token list with this token (lexer.py:279)
EOFToken(line_number) == Token("EOF", "", line_number)

\* the token list of the lexemes ls, one token a line, closed by EOF
TokenList(ls) ==
  [i \in 1..(Len(ls) + 1) |->
     IF i <= Len(ls) THEN Token(ls[i][1], ls[i][2], i) ELSE EOFToken(i)]

\* the sequences over S of length n
SeqsOfLen(S, n) == [1..n -> S]

\* the <<type, value>> pair of a word of a program, by the lexer's tables
\* KEYWORDS, DELIMITERS and OPERATORS (lexer.py:69-90) for the words used here
Lexeme(word) ==
  IF word \in {"int", "float"} THEN <<"KEYWORD", word>>
  ELSE IF word \in {";", "{", "}", "(", ")"} THEN <<"DELIMITER", word>>
  ELSE IF word \in {"=", "+"} THEN <<"OPERATOR", word>>
  ELSE IF word \in {"5", "10", "15", "20"} THEN <<"NUMBER", word>>
  ELSE <<"IDENTIFIER", word>>

\* the end-to-end program of parser.py:321-333 without its comments
SampleProgram ==
  << "int", "x", "=", "10", ";",
     "{", "int", "local", "=", "20", ";", "x", "=", "15", ";", "}",
     "int", "z", ";", "z", "=", "x", "+", "5", ";" >>

\* programs longer than MaxTokens, as sequences of words
Programs ==
  { SampleProgram,
    << "int", "x", ";", "int", "y", "=", "x", ";" >>,
    << "int", "x", ";", "int", "y", ";", "y", "=", "x", ";" >>,
    << "int", "x", "=", "x", ";" >>,
    << "x", "=", "y", ";" >>,
    << "int", "x", ";", "float", "x", "=", "5", ";", "int", "y", ";" >>,
    << "int", "x", ";", "{", "int", "x", ";", "x", "=", "5", ";", "}" >>,
    << "int", "x", ";", "{", "x", "=", "5", ";", "}" >>,
    << "int", "x", "=", "(", "5", ")", ";" >>,
    << "int", "x", ";", "x", "=", "(", "5", "+", "x", ")", ";" >>,
    << "{", "int", "x", ";", "}", "{", "int", "x", ";", "}" >>,
    << "{", "{", "int", "x", ";", "}", "x", "=", "5", ";", "}", "{", "}" >>,
    << "{", "int", "x", "=", "5", ";", "x", "=" >>,
    << "int", "x", ";", "y", "=", "x", ";", "int", "y", ";" >> }

\* the token lists handed to Parser(tokens)
TokenLists ==
  UNION {{TokenList(ls) : ls \in SeqsOfLen(Lexemes, n)} : n \in 0..MaxTokens}

\* the token lists of the programs
ProgramTokenLists ==
  {TokenList([i \in 1..Len(pr) |-> Lexeme(pr[i])]) : pr \in Programs}

\* ------------------------------------------------------------ the grammar
\* The grammar of the Parser docstring (parser.py:24-34). Each XEnd(t, i) is
\* the index after the X that starts at token i of t, or 0 when none does.
IsToken(t, i, type, values) ==
  i >= 1 /\ i <= Len(t) /\ t[i].type = type /\ t[i].value \in values

RECURSIVE FactorEnd(_, _), TermRest(_, _), ExprRest(_, _)

\* term -> factor ((*|/) factor)*, after a factor that ends at j
TermRest(t, j) ==
  IF j # 0 /\ IsToken(t, j, "OPERATOR", {"*", "/"})
  THEN TermRest(t, FactorEnd(t, j + 1)) ELSE j

\* expression -> term ((+|-) term)*, after a term that ends at j
ExprRest(t, j) ==
  IF j # 0 /\ IsToken(t, j, "OPERATOR", {"+", "-"})
  THEN ExprRest(t, TermRest(t, FactorEnd(t, j + 1))) ELSE j

\* expression
ExprEnd(t, i) == ExprRest(t, TermRest(t, FactorEnd(t, i)))

\* factor -> NUMBER | STRING | IDENTIFIER | (expression)
FactorEnd(t, i) ==
  IF i < 1 \/ i > Len(t) THEN 0
  ELSE IF t[i].type \in {"NUMBER", "STRING", "IDENTIFIER"} THEN i + 1
  ELSE IF IsToken(t, i, "DELIMITER", {"("})
  THEN LET j == ExprEnd(t, i + 1)
       IN IF j # 0 /\ IsToken(t, j, "DELIMITER", {")"}) THEN j + 1 ELSE 0
  ELSE 0

\* declaration -> type IDENTIFIER (= expression)? ;
DeclEnd(t, i) ==
  IF ~(IsToken(t, i, "KEYWORD", TypeKeywords) /\ i + 1 <= Len(t)
       /\ t[i + 1].type = "IDENTIFIER")
  THEN 0
  ELSE IF IsToken(t, i + 2, "DELIMITER", {";"}) THEN i + 3
  ELSE IF IsToken(t, i + 2, "OPERATOR", {"="})
  THEN LET j == ExprEnd(t, i + 3)
       IN IF j # 0 /\ IsToken(t, j, "DELIMITER", {";"}) THEN j + 1 ELSE 0
  ELSE 0

\* assignment -> IDENTIFIER = expression ;
AssignEnd(t, i) ==
  IF i >= 1 /\ i <= Len(t) /\ t[i].type = "IDENTIFIER"
     /\ IsToken(t, i + 1, "OPERATOR", {"="})
  THEN LET j == ExprEnd(t, i + 2)
       IN IF j # 0 /\ IsToken(t, j, "DELIMITER", {";"}) THEN j + 1 ELSE 0
  ELSE 0

RECURSIVE StmtEnd(_, _), StmtListEnd(_, _)

\* block -> { statement_list }
BlockEnd(t, i) ==
  IF IsToken(t, i, "DELIMITER", {"{"})
  THEN LET j == StmtListEnd(t, i + 1)
       IN IF IsToken(t, j, "DELIMITER", {"}"}) THEN j + 1 ELSE 0
  ELSE 0

\* statement -> declaration | assignment | block
StmtEnd(t, i) ==
  IF DeclEnd(t, i) # 0 THEN DeclEnd(t, i)
  ELSE IF AssignEnd(t, i) # 0 THEN AssignEnd(t, i)
  ELSE BlockEnd(t, i)

\* statement_list -> statement*: the index after the last statement from i on
StmtListEnd(t, i) ==
  LET j == StmtEnd(t, i) IN IF j = 0 THEN i ELSE StmtListEnd(t, j)

\* program -> statement_list, closed by the EOF token
IsProgram(t) == StmtListEnd(t, 1) = Len(t) /\ t[Len(t)].type = "EOF"

\* -------------------------------------------------------- the Parser object
\* The Parser instance as one value; symbol_table is the SymbolTable it owns.
PSelf ==
  [tokens |-> tokens, position |-> position, symbol_table |-> Self,
   errors |-> errors]

\* Parser.__init__
NewParser(toks) ==
  [tokens |-> toks, position |-> 0, symbol_table |-> NewSymbolTable,
   errors |-> <<>>]

\* self.current_token: tokens[position] while position < len(tokens), else None
current_token(self) ==
  IF self.position < Len(self.tokens)
  THEN Some(self.tokens[self.position + 1]) ELSE None

\* Parser.advance
advance(self) == [self EXCEPT !.position = self.position + 1]

\* Parser.expect; value is an Optional
expect(self, token_type, value) ==
  LET cur == current_token(self)
  IN /\ cur # None
     /\ cur[1].type = token_type
     /\ value # None => cur[1].value = value[1]

\* Parser.error
error(self, message) ==
  LET cur == current_token(self)
      line == IF cur # None THEN ToString(cur[1].line_number) ELSE "EOF"
  IN [self EXCEPT !.errors = Append(self.errors, "Line " \o line \o ": " \o message)]

\* Parser.parse_type
parse_type(self) ==
  IF expect(self, "KEYWORD", None) /\ current_token(self)[1].value \in TypeKeywords
  THEN [self |-> advance(self), ret |-> Some(current_token(self)[1].value)]
  ELSE [self |-> self, ret |-> None]

\* ' '.join(seq)
RECURSIVE JoinSpace(_)
JoinSpace(seq) ==
  IF Len(seq) = 0 THEN ""
  ELSE IF Len(seq) = 1 THEN seq[1]
  ELSE JoinSpace(SubSeq(seq, 1, Len(seq) - 1)) \o " " \o seq[Len(seq)]

\* parse_expression, lines 129-135: the loop that collects expr_tokens
RECURSIVE CollectExpr(_, _)
CollectExpr(self, expr_tokens) ==
  IF current_token(self) # None
     /\ ~(\/ expect(self, "DELIMITER", Some(";"))
          \/ expect(self, "DELIMITER", Some(","))
          \/ expect(self, "DELIMITER", Some(")")))
  THEN CollectExpr(advance(self), Append(expr_tokens, current_token(self)[1].value))
  ELSE [self |-> self, expr_tokens |-> expr_tokens]

\* Parser.parse_expression
parse_expression(self) ==
  LET r == CollectExpr(self, <<>>)
  IN [self |-> r.self,
      ret |-> IF r.expr_tokens # <<>> THEN Some(JoinSpace(r.expr_tokens)) ELSE None]

\* mutant: the entry is never marked initialized
parse_declaration_never_initialized(self) ==
  LET t == parse_type(self)
  IN IF t.ret = None THEN [self |-> t.self, ret |-> FALSE]
     ELSE IF ~expect(t.self, "IDENTIFIER", None)
     THEN [self |-> error(t.self, "Expected identifier after type '" \o t.ret[1] \o "'"),
           ret |-> FALSE]
     ELSE
       LET var_type == t.ret[1]
           var_name == current_token(t.self)[1].value
           line_number == current_token(t.self)[1].line_number
           s1 == advance(t.self)
           hasInit == expect(s1, "OPERATOR", Some("="))
           e == IF hasInit THEN parse_expression(advance(s1))
                ELSE [self |-> s1, ret |-> None]
           value == e.ret
           initialized == FALSE
       IN IF ~expect(e.self, "DELIMITER", Some(";"))
          THEN [self |-> error(e.self, "Expected ';' after declaration of '"
                                        \o var_name \o "'"),
                ret |-> FALSE]
          ELSE
            LET s2 == advance(e.self)
                i == insert(s2.symbol_table, var_name, var_type, line_number, value,
                            [NoInsertKwargs EXCEPT !.initialized = Some(initialized)])
                s3 == [s2 EXCEPT !.symbol_table = i.self]
            IN IF ~i.ret
               THEN [self |-> error(s3, "Duplicate declaration of variable '"
                                         \o var_name \o "'"),
                     ret |-> FALSE]
               ELSE [self |-> s3, ret |-> TRUE]

\* Parser.parse_declaration
parse_declaration(self) ==
  LET t == parse_type(self)
  IN IF t.ret = None THEN [self |-> t.self, ret |-> FALSE]
     ELSE IF ~expect(t.self, "IDENTIFIER", None)
     THEN [self |-> error(t.self, "Expected identifier after type '" \o t.ret[1] \o "'"),
           ret |-> FALSE]
     ELSE
       LET var_type == t.ret[1]
           var_name == current_token(t.self)[1].value
           line_number == current_token(t.self)[1].line_number
           s1 == advance(t.self)
           hasInit == expect(s1, "OPERATOR", Some("="))
           e == IF hasInit THEN parse_expression(advance(s1))
                ELSE [self |-> s1, ret |-> None]
           value == e.ret
           initialized == hasInit
       IN IF ~expect(e.self, "DELIMITER", Some(";"))
          THEN [self |-> error(e.self, "Expected ';' after declaration of '"
                                        \o var_name \o "'"),
                ret |-> FALSE]
          ELSE
            LET s2 == advance(e.self)
                i == insert(s2.symbol_table, var_name, var_type, line_number, value,
                            [NoInsertKwargs EXCEPT !.initialized = Some(initialized)])
                s3 == [s2 EXCEPT !.symbol_table = i.self]
            IN IF ~i.ret
               THEN [self |-> error(s3, "Duplicate declaration of variable '"
                                         \o var_name \o "'"),
                     ret |-> FALSE]
               ELSE [self |-> s3, ret |-> TRUE]

\* Parser.parse_assignment
parse_assignment(self) ==
  LET var_name == current_token(self)[1].value
      s1 == advance(self)
      l == lookup(s1.symbol_table, var_name, None)
      s2 == [s1 EXCEPT !.symbol_table = l.self]
  IN IF l.ret = None
     THEN [self |-> error(s2, "Undeclared variable '" \o var_name \o "'"),
           ret |-> FALSE]
     ELSE IF ~expect(s2, "OPERATOR", Some("="))
     THEN [self |-> error(s2, "Expected '=' in assignment"), ret |-> FALSE]
     ELSE
       LET e == parse_expression(advance(s2))
       IN IF ~expect(e.self, "DELIMITER", Some(";"))
          THEN [self |-> error(e.self, "Expected ';' after assignment"), ret |-> FALSE]
          ELSE
            LET s3 == advance(e.self)
                u == update(s3.symbol_table, var_name,
                            [NoUpdateKwargs EXCEPT !.value = Some(e.ret),
                                                   !.initialized = Some(TRUE)])
            IN [self |-> [s3 EXCEPT !.symbol_table = u.self], ret |-> TRUE]

\* ------------------------------------------------------ the parser machine
\* In this machine ret is an Optional: None until a statement has been
\* parsed, then Some(result) of the last call that returned to a statement
\* loop, and None again when a block has been opened.

\* the Parser instance after a step becomes the state
PBecomes(self) ==
  /\ tokens' = self.tokens
  /\ position' = self.position
  /\ errors' = self.errors
  /\ Becomes(self.symbol_table)

\* the call returns to its caller
Return(n) == frames' = SubSeq(frames, 1, Len(frames) - n)

\* Parser(toks) has been built for one of the token lists and parse() called
ParserStarts(token_lists) ==
  /\ \E toks \in token_lists :
       /\ tokens = toks
       /\ position = NewParser(toks).position
       /\ errors = NewParser(toks).errors
  /\ table = NewSymbolTable.table
  /\ current_scope = NewSymbolTable.current_scope
  /\ scope_stack = NewSymbolTable.scope_stack
  /\ scope_counter = NewSymbolTable.scope_counter
  /\ frames = <<"parse">>
  /\ op = [name |-> "parse"]
  /\ ret = None
  /\ lexer = None

\* parse() on a token list of up to MaxTokens lexemes
ParserInit == ParserStarts(TokenLists)

\* parse() on one of those token lists or on one of the programs
ProgramInit == ParserStarts(TokenLists \cup ProgramTokenLists)

\* parse, line 296-297: the loop condition holds, parse_statement is called
ParseCallsStatement ==
  /\ frames = <<"parse">>
  /\ current_token(PSelf) # None /\ ~expect(PSelf, "EOF", None)
  /\ frames' = Append(frames, "parse_statement")
  /\ UNCHANGED <<table, current_scope, scope_stack, scope_counter, op, ret,
                 tokens, position, errors, lexer>>

\* parse, lines 296 and 299-304: the loop ends and parse returns the table,
\* which is the table of the state
ParseReturns ==
  /\ frames = <<"parse">>
  /\ ~(current_token(PSelf) # None /\ ~expect(PSelf, "EOF", None))
  /\ Return(1)
  /\ op' = [name |-> "parse"]
  /\ UNCHANGED <<table, current_scope, scope_stack, scope_counter, ret,
                 tokens, position, errors, lexer>>

\* parse_statement, lines 266-267: nothing left, or EOF
StatementAtEnd ==
  /\ frames # <<>> /\ Top(frames) = "parse_statement"
  /\ current_token(PSelf) = None \/ expect(PSelf, "EOF", None)
  /\ Return(1)
  /\ op' = [name |-> "parse_statement"]
  /\ ret' = Some(FALSE)
  /\ UNCHANGED <<table, current_scope, scope_stack, scope_counter,
                 tokens, position, errors, lexer>>

\* parse_statement, lines 270-271: a declaration
StatementDeclaration ==
  /\ frames # <<>> /\ Top(frames) = "parse_statement"
  /\ expect(PSelf, "KEYWORD", None)
  /\ current_token(PSelf)[1].value \in TypeKeywords
  /\ LET r == parse_declaration(PSelf)
     IN /\ PBecomes(r.self)
        /\ ret' = Some(r.ret)
  /\ Return(1)
  /\ op' = [name |-> "parse_declaration"]
  /\ UNCHANGED lexer

\* parse_statement, lines 274-275, and parse_block, lines 235-241: the block
\* is opened and its scope entered
StatementBlock ==
  /\ frames # <<>> /\ Top(frames) = "parse_statement"
  /\ expect(PSelf, "DELIMITER", Some("{"))
  /\ LET s1 == advance(PSelf)
         en == enter_scope(s1.symbol_table, None)
     IN PBecomes([s1 EXCEPT !.symbol_table = en.self])
  /\ frames' = Append(frames, "parse_block")
  /\ op' = [name |-> "enter_scope"]
  /\ ret' = None
  /\ UNCHANGED lexer

\* parse_statement, lines 278-279: an assignment
StatementAssignment ==
  /\ frames # <<>> /\ Top(frames) = "parse_statement"
  /\ expect(PSelf, "IDENTIFIER", None)
  /\ LET r == parse_assignment(PSelf)
     IN /\ PBecomes(r.self)
        /\ ret' = Some(r.ret)
  /\ Return(1)
  /\ op' = [name |-> "parse_assignment"]
  /\ UNCHANGED lexer

\* parse_statement, lines 281-283: any other token is skipped
StatementSkip ==
  /\ frames # <<>> /\ Top(frames) = "parse_statement"
  /\ current_token(PSelf) # None /\ ~expect(PSelf, "EOF", None)
  /\ ~(expect(PSelf, "KEYWORD", None)
        /\ current_token(PSelf)[1].value \in TypeKeywords)
  /\ ~expect(PSelf, "DELIMITER", Some("{"))
  /\ ~expect(PSelf, "IDENTIFIER", None)
  /\ PBecomes(advance(PSelf))
  /\ Return(1)
  /\ op' = [name |-> "parse_statement"]
  /\ ret' = Some(FALSE)
  /\ UNCHANGED lexer

\* parse_block, lines 244-245: the loop condition holds, parse_statement is
\* called
BlockCallsStatement ==
  /\ frames # <<>> /\ Top(frames) = "parse_block"
  /\ current_token(PSelf) # None /\ ~expect(PSelf, "DELIMITER", Some("}"))
  /\ frames' = Append(frames, "parse_statement")
  /\ UNCHANGED <<table, current_scope, scope_stack, scope_counter, op, ret,
                 tokens, position, errors, lexer>>

\* mutant: the '}' ends the block without exit_scope()
BlockCloses_without_exit_scope ==
  /\ frames # <<>> /\ Top(frames) = "parse_block"
  /\ expect(PSelf, "DELIMITER", Some("}"))
  /\ PBecomes(advance(PSelf))
  /\ Return(2)
  /\ op' = [name |-> "parse_block"]
  /\ ret' = Some(TRUE)
  /\ UNCHANGED lexer

\* parse_block, lines 248-257: the '}' is there; the scope is exited and
\* parse_block, and parse_statement that called it, return True
BlockCloses ==
  /\ frames # <<>> /\ Top(frames) = "parse_block"
  /\ expect(PSelf, "DELIMITER", Some("}"))
  /\ LET s1 == advance(PSelf)
         ex == exit_scope(s1.symbol_table)
     IN PBecomes([s1 EXCEPT !.symbol_table = ex.self])
  /\ Return(2)
  /\ op' = [name |-> "parse_block"]
  /\ ret' = Some(TRUE)
  /\ UNCHANGED lexer

\* parse_block, lines 244 and 248-250: the tokens ran out before a '}'; the
\* error is recorded and parse_block returns False without exit_scope
BlockUnclosed ==
  /\ frames # <<>> /\ Top(frames) = "parse_block"
  /\ current_token(PSelf) = None
  /\ PBecomes(error(PSelf, "Expected '}' to close block"))
  /\ Return(2)
  /\ op' = [name |-> "parse_block"]
  /\ ret' = Some(FALSE)
  /\ UNCHANGED lexer

ParserNext ==
  \/ ParseCallsStatement
  \/ ParseReturns
  \/ StatementAtEnd
  \/ StatementDeclaration
  \/ StatementBlock
  \/ StatementAssignment
  \/ StatementSkip
  \/ BlockCallsStatement
  \/ BlockCloses
  \/ BlockUnclosed

\* parse() runs on its own thread of control until it returns
ParserSpec == ParserInit /\ [][ParserNext]_vars /\ WF_vars(ParserNext)

\* the same run, programs included
ProgramSpec == ProgramInit /\ [][ParserNext]_vars

\* --------------------------------------------------------------- the lexer
\* src/lexer.py. The source text is a sequence of one-character strings, and
\* position counts from 0 as in the code.

\* str.isdigit and str.isalpha on the characters of the sources
Digits == {"0", "1", "2", "3", "4", "5", "6", "7", "8", "9"}

Letters ==
  {"a", "b", "c", "d", "e", "f", "g", "h", "i", "j", "k", "l", "m", "n", "o",
   "p", "q", "r", "s", "t", "u", "v", "w", "x", "y", "z"}

\* Lexer.KEYWORDS
KEYWORDS ==
  {"int", "float", "string", "bool", "if", "else", "elif", "while", "for",
   "return", "break", "continue", "true", "false", "null", "const",
   "function", "begin", "end"}

\* Lexer.OPERATORS
OPERATORS ==
  {"+", "-", "*", "/", "%", "=", "==", "!=", "<", ">", "<=", ">=", "&&", "||",
   "!", "+=", "-=", "*=", "/="}

\* Lexer.DELIMITERS
DELIMITERS == {"{", "}", "(", ")", "[", "]", ";", ",", ":", "."}

\* the characters of ' \t\r\n'
Whitespace == {" ", "\t", "\r", "\n"}

\* the characters of '+-*/%=!<>&|'
OperatorChars == {"+", "-", "*", "/", "%", "=", "!", "<", ">", "&", "|"}

\* the characters the sources are written in
SourceChars == {"\n", " ", "x", "1", ";", "/", "=", "\""}

\* the source texts given to Lexer(source_code)
Sources == UNION {SeqsOfLen(SourceChars, n) : n \in 0..MaxSource}

\* Lexer.__init__
NewLexer(source_code) ==
  [source |-> source_code,
   position |-> 0,
   line_number |-> 1,
   current_char |-> IF source_code # <<>> THEN Some(source_code[1]) ELSE None,
   tokens |-> <<>>]

\* Lexer.advance
Lexer_advance(self) ==
  LET pos == self.position + 1
  IN IF pos >= Len(self.source)
     THEN [self EXCEPT !.position = pos, !.current_char = None]
     ELSE [self EXCEPT !.position = pos,
                       !.current_char = Some(self.source[pos + 1]),
                       !.line_number =
                          IF self.source[pos + 1] = "\n" THEN @ + 1 ELSE @]

\* Lexer.peek, with the default offset
Lexer_peek(self) ==
  IF self.position + 1 < Len(self.source)
  THEN Some(self.source[self.position + 2]) ELSE None

\* current_char is one of the characters of chars
CharIn(self, chars) ==
  self.current_char # None /\ self.current_char[1] \in chars

\* Lexer.skip_whitespace
RECURSIVE skip_whitespace(_)
skip_whitespace(self) ==
  IF CharIn(self, Whitespace) THEN skip_whitespace(Lexer_advance(self)) ELSE self

\* skip_comment, lines 138-139: up to the end of the line
RECURSIVE SkipLine(_)
SkipLine(self) ==
  IF self.current_char # None /\ self.current_char # Some("\n")
  THEN SkipLine(Lexer_advance(self)) ELSE self

\* Lexer.skip_comment
skip_comment(self) ==
  IF self.current_char = Some("/") /\ Lexer_peek(self) = Some("/")
  THEN LET s1 == SkipLine(self)
       IN IF s1.current_char = Some("\n") THEN Lexer_advance(s1) ELSE s1
  ELSE self

\* read_number, lines 154-160: the loop that collects num_str
RECURSIVE ReadNumberLoop(_, _, _)
ReadNumberLoop(self, num_str, has_decimal) ==
  IF CharIn(self, Digits \cup {"."})
     /\ ~(self.current_char = Some(".") /\ has_decimal)
  THEN ReadNumberLoop(Lexer_advance(self), num_str \o self.current_char[1],
                      has_decimal \/ self.current_char = Some("."))
  ELSE [self |-> self, num_str |-> num_str]

\* Lexer.read_number
read_number(self) ==
  LET r == ReadNumberLoop(self, "", FALSE)
  IN [self |-> r.self, ret |-> Token("NUMBER", r.num_str, self.line_number)]

\* read_string, lines 182-183: escape_map.get(c, c)
Unescape(c) ==
  IF c = "n" THEN "\n" ELSE IF c = "t" THEN "\t" ELSE IF c = "r" THEN "\r"
  ELSE c

\* read_string, lines 177-187: the loop that collects string_value
RECURSIVE ReadStringLoop(_, _, _)
ReadStringLoop(self, quote_char, string_value) ==
  IF self.current_char # None /\ self.current_char # quote_char
  THEN IF self.current_char = Some("\\")
       THEN LET s1 == Lexer_advance(self)
            IN IF CharIn(s1, {"n", "t", "r", "\\", quote_char[1]})
               THEN ReadStringLoop(Lexer_advance(s1), quote_char,
                                   string_value \o Unescape(s1.current_char[1]))
               ELSE ReadStringLoop(s1, quote_char, string_value)
       ELSE ReadStringLoop(Lexer_advance(self), quote_char,
                           string_value \o self.current_char[1])
  ELSE [self |-> self, string_value |-> string_value]

\* Lexer.read_string
read_string(self) ==
  LET r == ReadStringLoop(Lexer_advance(self), self.current_char, "")
      s1 == IF r.self.current_char = self.current_char
            THEN Lexer_advance(r.self) ELSE r.self
  IN [self |-> s1, ret |-> Token("STRING", r.string_value, self.line_number)]

\* read_identifier, lines 204-206: the loop that collects identifier
RECURSIVE ReadIdentifierLoop(_, _)
ReadIdentifierLoop(self, identifier) ==
  IF CharIn(self, Letters \cup Digits \cup {"_"})
  THEN ReadIdentifierLoop(Lexer_advance(self),
                          identifier \o self.current_char[1])
  ELSE [self |-> self, identifier |-> identifier]

\* Lexer.read_identifier
read_identifier(self) ==
  LET r == ReadIdentifierLoop(self, "")
  IN [self |-> r.self,
      ret |-> IF r.identifier \in KEYWORDS
              THEN Token("KEYWORD", r.identifier, self.line_number)
              ELSE Token("IDENTIFIER", r.identifier, self.line_number)]

\* Lexer.read_operator
read_operator(self) ==
  LET s1 == Lexer_advance(self)
      c  == self.current_char[1]
  IN IF s1.current_char # None /\ (c \o s1.current_char[1]) \in OPERATORS
     THEN [self |-> Lexer_advance(s1),
           ret |-> Token("OPERATOR", c \o s1.current_char[1], self.line_number)]
     ELSE [self |-> s1, ret |-> Token("OPERATOR", c, self.line_number)]

\* Lexer.get_next_token. start is the position of the first character of the
\* token returned (the length of the source for the EOF token); the code does
\* not keep it, the claims about line numbers refer to it.
RECURSIVE get_next_token(_)
get_next_token(self) ==
  IF self.current_char = None
  THEN [self |-> self, ret |-> Token("EOF", "", self.line_number),
        start |-> self.position]
  ELSE IF CharIn(self, Whitespace) THEN get_next_token(skip_whitespace(self))
  ELSE IF self.current_char = Some("/") /\ Lexer_peek(self) = Some("/")
  THEN get_next_token(skip_comment(self))
  ELSE IF CharIn(self, Digits)
  THEN [self |-> read_number(self).self, ret |-> read_number(self).ret,
        start |-> self.position]
  ELSE IF CharIn(self, {"\"", "'"})
  THEN [self |-> read_string(self).self, ret |-> read_string(self).ret,
        start |-> self.position]
  ELSE IF CharIn(self, Letters \cup {"_"})
  THEN [self |-> read_identifier(self).self, ret |-> read_identifier(self).ret,
        start |-> self.position]
  ELSE IF CharIn(self, DELIMITERS)
  THEN [self |-> Lexer_advance(self),
        ret |-> Token("DELIMITER", self.current_char[1], self.line_number),
        start |-> self.position]
  ELSE IF CharIn(self, OperatorChars)
  THEN [self |-> read_operator(self).self, ret |-> read_operator(self).ret,
        start |-> self.position]
  ELSE get_next_token(Lexer_advance(self))

\* ------------------------------------------------------- the lexer machine
\* Lexer(source_code) has been built and tokenize() called
LexerInit ==
  /\ \E source_code \in Sources : lexer = NewLexer(source_code)
  /\ table = NewSymbolTable.table
  /\ current_scope = NewSymbolTable.current_scope
  /\ scope_stack = NewSymbolTable.scope_stack
  /\ scope_counter = NewSymbolTable.scope_counter
  /\ op = [name |-> "tokenize"]
  /\ ret = None
  /\ tokens = <<>>
  /\ position = 0
  /\ errors = <<>>
  /\ frames = <<>>

\* tokenize, lines 297-298: the EOF token has been appended
AtEOF(self) ==
  self.tokens # <<>> /\ self.tokens[Len(self.tokens)].type = "EOF"

\* tokenize, lines 290-298: one turn of the loop, which ends with the EOF token
Tokenize ==
  /\ ~AtEOF(lexer)
  /\ LET r == get_next_token(lexer)
     IN /\ lexer' = [r.self EXCEPT !.tokens = Append(@, r.ret)]
        /\ op' = [name |-> "get_next_token", start |-> r.start]
        /\ ret' = r.ret
  /\ UNCHANGED <<table, current_scope, scope_stack, scope_counter, pvars>>

LexerNext == Tokenize

LexerSpec == LexerInit /\ [][LexerNext]_vars

\* ------------------------------------------------- arguments of the claims
\* The claims quantify over more argument combinations than the actions draw.
ExplicitFlags ==
  [symbol_type |-> "float", line_number |-> 2, value |-> None,
   kwargs |-> [initialized |-> Some(TRUE), constant |-> Some(TRUE),
               attributes |-> Some([k \in {"doc"} |-> 1])]]

ClaimInsertCalls == InsertCalls \cup {ExplicitFlags}

\* pairs <<first call, second call>> of insert arguments, equal and different
ClaimInsertPairs ==
  {<<a, b>> \in InsertCalls \X ClaimInsertCalls : a.value # None}
  \cup {<<ExplicitFlags, ExplicitFlags>>}

ClaimScopeNames == {None} \cup {Some(n) : n \in ScopeNames}

\* the paths of the prefixes of the active scope stack
ActivePrefixes(self) ==
  {Join(SubSeq(self.scope_stack, 1, i)) : i \in 1..Len(self.scope_stack)}

\* bucket p of the table binds name n
Binds(self, p, n) == p \in DOMAIN self.table /\ n \in DOMAIN self.table[p]

\* ------------------------------------------------------------------ C1
\* C1: for every name n, lookup(n) without a scope returns the entry stored
\* under the longest prefix of the active scope stack (joined with '.') whose
\* bucket contains n, and None exactly when no prefix's bucket contains n; an
\* entry stored under a path that is not a prefix is never returned.
C1_LookupLongestPrefix ==
  \A n \in Names :
    LET r == lookup(Self, n, None)
        binding == {p \in ActivePrefixes(Self) : Binds(Self, p, n)}
    IN /\ (r.ret = None) <=> (binding = {})
       /\ r.ret # None =>
            \E p \in binding :
              /\ \A q \in binding : Len(q) <= Len(p)
              /\ r.ref = Some(<<p, n>>)
              /\ r.ret[1] = [table[p][n] EXCEPT !.used = TRUE]
              /\ r.ret[1] = r.self.table[p][n]

\* a resolving lookup has just returned an entry of an outer scope although a
\* scope that is not on the stack binds the same name
C1_Witness ==
  /\ op.name = "lookup" /\ op.resolving /\ ret # None
  /\ ret[1].scope # Join(scope_stack)
  /\ \E p \in DOMAIN table \ ActivePrefixes(Self) : Binds(Self, p, op.sym)

\* ------------------------------------------------------------------ C2
\* C2: insert x in S0, enter S, insert x again: lookup(x) inside S returns the
\* S entry (its type and value); after exit_scope() back to S0, lookup(x)
\* returns the S0 entry with the type and value it was inserted with.
C2_Shadowing ==
  \A x \in Names, ab \in ClaimInsertPairs, seg \in ClaimScopeNames :
    LET a == ab[1]
        b == ab[2]
        i0 == insert(Self, x, a.symbol_type, a.line_number, a.value, a.kwargs)
        en == enter_scope(i0.self, seg)
        i1 == insert(en.self, x, b.symbol_type, b.line_number, b.value, b.kwargs)
        l1 == lookup(i1.self, x, None)
        ex == exit_scope(l1.self)
        l2 == lookup(ex.self, x, None)
    IN (i0.ret /\ i1.ret) =>
         /\ l1.ret # None
         /\ l1.ret[1].scope = en.ret
         /\ l1.ret[1].symbol_type = b.symbol_type
         /\ l1.ret[1].value = b.value
         /\ ex.self.scope_stack = scope_stack
         /\ l2.ret # None
         /\ l2.ret[1].scope = Join(scope_stack)
         /\ l2.ret[1].symbol_type = a.symbol_type
         /\ l2.ret[1].value = a.value

\* back in S0 a lookup has just returned the S0 entry, while the bucket of a
\* child scope still holds a shadowing entry of another value that was looked up
C2_Witness ==
  /\ op.name = "lookup" /\ op.resolving /\ ret # None
  /\ ret[1].scope = Join(scope_stack)
  /\ \E p \in DOMAIN table \ ActivePrefixes(Self) :
       /\ Binds(Self, p, op.sym)
       /\ \E seg \in ScopeNames \cup {BlockName(k) : k \in 1..MaxCounter} :
            p = Join(Append(scope_stack, seg))
       /\ table[p][op.sym].used
       /\ table[p][op.sym].value # ret[1].value

\* ------------------------------------------------------------------ C3
\* C3: insert(name, ...) returns False when name is already bound in the
\* current scope path and the table is then unchanged, whatever the arguments;
\* a second insert with identical arguments returns False.
C3_DuplicateRejected ==
  \A n \in Names, c \in ClaimInsertCalls :
    LET r == insert(Self, n, c.symbol_type, c.line_number, c.value, c.kwargs)
        again == insert(r.self, n, c.symbol_type, c.line_number, c.value, c.kwargs)
    IN /\ Binds(Self, Join(scope_stack), n) => (r.ret = FALSE /\ r.self = Self)
       /\ r.ret = TRUE => (again.ret = FALSE /\ again.self = r.self)

\* an insert has just been rejected in a scope that binds the name
C3_Witness ==
  /\ op.name = "insert" /\ ret = FALSE
  /\ Binds(Self, Join(scope_stack), op.sym)
  /\ Len(scope_stack) > 1

\* ------------------------------------------------------------------ C4
\* the scope arguments the claims try: every bucket and a path with no bucket
ClaimScopes(self) ==
  {None} \cup {Some(p) : p \in DOMAIN self.table \cup {"global.nowhere"}}

\* the places <<path, name>> of the entries of the table
Refs(self) ==
  UNION {{<<p, n>> : n \in DOMAIN self.table[p]} : p \in DOMAIN self.table}

\* C4: a newly inserted entry has used = False; a resolving lookup that finds
\* an entry sets used = True on exactly that entry; no lookup, resolving or
\* scoped, sets a used flag back to False.
C4_UsedMonotonic ==
  /\ \A n \in Names, c \in ClaimInsertCalls :
       LET r == insert(Self, n, c.symbol_type, c.line_number, c.value, c.kwargs)
       IN r.ret => r.self.table[Join(scope_stack)][n].used = FALSE
  /\ \A n \in Names :
       LET r == lookup(Self, n, None)
       IN r.ret # None =>
            r.self = [Self EXCEPT !.table[r.ref[1][1]][n].used = TRUE]
  /\ \A n \in Names, scope \in ClaimScopes(Self) :
       LET r == lookup(Self, n, scope)
       IN \A e \in Refs(Self) :
            /\ e \in Refs(r.self)
            /\ table[e[1]][e[2]].used => r.self.table[e[1]][e[2]].used

\* a scoped lookup has just returned an entry that an earlier resolving lookup
\* marked, while another entry is still unused
C4_Witness ==
  /\ op.name = "lookup" /\ ~op.resolving /\ ret # None
  /\ ret[1].used
  /\ \E e \in Refs(Self) : ~table[e[1]][e[2]].used

\* ------------------------------------------------------------------ C5
\* the entry a resolving lookup of n finds in the table of self
Resolved(self, n) ==
  LET binding == {p \in ActivePrefixes(self) : Binds(self, p, n)}
      p == CHOOSE q \in binding : \A o \in binding : Len(o) <= Len(q)
  IN self.table[p][n]

\* C5 as stated: after every update(name, ...) call that returns True the
\* entry it resolved has used = True, whatever fields were supplied.
C5_UpdateAlwaysMarksUsed ==
  (op.name = "update" /\ ret = TRUE) => Resolved(Self, op.sym).used

\* C5 amended: after an update(name, ...) call that returns True the entry it
\* resolved has used = True unless the call supplied 'used', and then the flag
\* is the supplied value.
C5_UpdateMarksUsedUnlessSupplied ==
  (op.name = "update" /\ ret = TRUE) =>
    Resolved(Self, op.sym).used =
      (IF op.kwargs.used = None THEN TRUE ELSE op.kwargs.used[1])

\* an update that supplied a value but not 'used' has just succeeded
C5_Witness ==
  /\ op.name = "update" /\ ret = TRUE
  /\ op.kwargs.used = None /\ op.kwargs.value # None
  /\ Resolved(Self, op.sym).used

\* ------------------------------------------------------------------ C6
\* C6: the active scope stack always has at least one segment and its first
\* segment is 'global'; exit_scope() with only the root on the stack returns
\* None and leaves the stack and the table unchanged.
C6_RootNeverPopped ==
  /\ Len(scope_stack) >= 1
  /\ scope_stack[1] = "global"
  /\ Len(scope_stack) = 1 => exit_scope(Self) = [self |-> Self, ret |-> None]
  /\ (op.name = "exit_scope" /\ ret = None) => scope_stack = <<"global">>

\* exit_scope() has just been refused at the root of a table that has entries
C6_Witness ==
  /\ op.name = "exit_scope" /\ ret = None
  /\ scope_stack = <<"global">>
  /\ Refs(Self) # {}

\* ------------------------------------------------------------------ C7
\* C7: exit_scope never changes the table, and no operation removes a scope
\* path from the table: the set of scope paths only grows.
C7_ScopesOnlyGrow ==
  [][ /\ DOMAIN table \subseteq DOMAIN table'
      /\ op'.name = "exit_scope" => table' = table ]_vars

\* exit_scope() has just popped a scope whose bucket still holds an entry, and
\* a bucket emptied by delete is still in the table
C7_Witness ==
  /\ op.name = "exit_scope" /\ ret # None
  /\ LET popped == Join(Append(scope_stack, ret[1]))
     IN popped \in DOMAIN table /\ DOMAIN table[popped] # {}
  /\ \E p \in DOMAIN table : DOMAIN table[p] = {}

\* ------------------------------------------------------------------ C8
\* C8: get_statistics aggregates over every bucket, exited scopes included:
\* total_symbols is the number of entries in all buckets, 'used' and
\* 'initialized' count the entries with that flag, unused = total_symbols -
\* used; an entry inserted in a scope that was then exited still counts in
\* total_symbols and its scope in total_scopes.
C8_StatisticsGlobal ==
  LET st == get_statistics(Self)
  IN /\ st.total_symbols = Cardinality(Refs(Self))
     /\ st.used = Cardinality({e \in Refs(Self) : table[e[1]][e[2]].used})
     /\ st.initialized = Cardinality({e \in Refs(Self) : table[e[1]][e[2]].initialized})
     /\ st.unused = st.total_symbols - st.used
     /\ st.unused = Cardinality({e \in Refs(Self) : ~table[e[1]][e[2]].used})
     /\ st.total_scopes = Cardinality(DOMAIN table)
     /\ \A n \in Names, c \in InsertCalls, seg \in ClaimScopeNames :
          LET en == enter_scope(Self, seg)
              i == insert(en.self, n, c.symbol_type, c.line_number, c.value, c.kwargs)
              after == get_statistics(exit_scope(i.self).self)
          IN i.ret =>
               /\ after.total_symbols = st.total_symbols + 1
               /\ after.total_scopes = Cardinality(DOMAIN table \cup {en.ret})
               /\ after.total_scopes >= 2 \/ "global" \notin DOMAIN table
     /\ op.name = "get_statistics" => ret = st

\* get_statistics() has just counted used and unused entries, one of them in a
\* scope that has been exited
C8_Witness ==
  /\ op.name = "get_statistics"
  /\ ret.total_symbols >= 2 /\ ret.used >= 1 /\ ret.unused >= 1
  /\ ret.initialized >= 1 /\ ret.total_scopes >= 2
  /\ \E e \in Refs(Self) : e[1] \notin ActivePrefixes(Self)

\* ------------------------------------------------------------------ C9
\* C9: after exit_scope() pops a scope S, in every state whose active stack
\* does not have S's path as a prefix, a resolving lookup of a name bound only
\* in S returns None, and names bound in the scopes still on the stack are
\* still found, at every nesting level.
C9_ExitedScopeInvisible ==
  /\ Len(scope_stack) > 1 =>
       LET S == Join(scope_stack)
           ex == exit_scope(Self)
           outer == ActivePrefixes(ex.self)
       IN /\ S \notin outer
          /\ \A n \in Names :
               LET r == lookup(ex.self, n, None)
               IN IF \E q \in outer : Binds(Self, q, n)
                  THEN r.ret # None /\ r.ret[1].scope \in outer
                  ELSE r.ret = None
  /\ \A n \in Names :
       LET r == lookup(Self, n, None)
       IN IF \E q \in ActivePrefixes(Self) : Binds(Self, q, n)
          THEN r.ret # None /\ r.ret[1].scope \in ActivePrefixes(Self)
          ELSE r.ret = None

\* inside a nested scope a resolving lookup has just returned None for a name
\* that only exited scopes bind, one of them two levels deep
C9_Witness ==
  /\ op.name = "lookup" /\ op.resolving /\ ret = None
  /\ Len(scope_stack) >= 2
  /\ \E p \in DOMAIN table \ ActivePrefixes(Self) :
       /\ Binds(Self, p, op.sym)
       /\ \E a \in ScopeNames \cup {BlockName(k) : k \in 1..MaxCounter},
             b \in ScopeNames \cup {BlockName(k) : k \in 1..MaxCounter} :
            p = Join(<<"global", a, b>>)

\* ----------------------------------------------------------------- C10
ClaimUpdateCalls ==
  UpdateCalls \cup
  { [NoUpdateKwargs EXCEPT !.value = Some(Some(20))],
    [NoUpdateKwargs EXCEPT !.value = Some(None)],
    [NoUpdateKwargs EXCEPT !.initialized = Some(FALSE)],
    [NoUpdateKwargs EXCEPT !.constant = Some(TRUE)],
    [NoUpdateKwargs EXCEPT !.attributes = Some([k \in {"doc"} |-> 2])],
    [value |-> Some(Some(20)), initialized |-> Some(FALSE), used |-> Some(TRUE),
     constant |-> Some(TRUE), attributes |-> Some([k \in {"doc"} |-> 2])] }

\* C10: update(name, ...) changes only the entry a resolving lookup of name
\* returns; entries of the same name in outer scopes or in scopes not on the
\* stack are unchanged; among value, initialized and constant only the fields
\* supplied change, to the supplied values.
C10_UpdateFrame ==
  \A n \in Names, kwargs \in ClaimUpdateCalls :
    LET l == lookup(Self, n, None)
        r == update(Self, n, kwargs)
    IN r.ret = TRUE =>
         /\ l.ret # None
         /\ Refs(r.self) = Refs(Self)
         /\ \A e \in Refs(Self) \ {l.ref[1]} :
              r.self.table[e[1]][e[2]] = table[e[1]][e[2]]
         /\ r.self.scope_stack = scope_stack
         /\ r.self.scope_counter = scope_counter
         /\ LET old == table[l.ref[1][1]][n]
                new == r.self.table[l.ref[1][1]][n]
            IN /\ new.value = IF kwargs.value # None THEN kwargs.value[1] ELSE old.value
               /\ new.initialized = IF kwargs.initialized # None
                                    THEN kwargs.initialized[1] ELSE old.initialized
               /\ new.constant = IF kwargs.constant # None
                                 THEN kwargs.constant[1] ELSE old.constant
               /\ new.name = old.name /\ new.symbol_type = old.symbol_type
               /\ new.scope = old.scope /\ new.line_number = old.line_number

\* an update that supplied a value has just changed the innermost binding of a
\* name while an outer scope binds the same name with its old value
C10_Witness ==
  /\ op.name = "update" /\ ret = TRUE /\ op.kwargs.value # None
  /\ Resolved(Self, op.sym).scope = Join(scope_stack)
  /\ Resolved(Self, op.sym).value = op.kwargs.value[1]
  /\ \E q \in ActivePrefixes(Self) \ {Join(scope_stack)} :
       Binds(Self, q, op.sym) /\ table[q][op.sym].value # op.kwargs.value[1]

\* ----------------------------------------------------------------- C11
\* a value together with an explicit initialized = False
ValueUninitialized ==
  [symbol_type |-> "string", line_number |-> 3, value |-> Some(5),
   kwargs |-> [initialized |-> Some(FALSE), constant |-> None,
               attributes |-> None]]

FrameInsertCalls == ClaimInsertCalls \cup {ValueUninitialized}

\* C11: a successful insert(name, ...) adds exactly one entry, to the bucket
\* of the current scope path, also when an ancestor scope binds the name; every
\* other bucket, every other entry, the scope stack and the scope counter are
\* unchanged; the new entry has used = False and initialized = the explicit
\* flag when one is given, else True exactly when a value was provided.
C11_InsertFrame ==
  \A n \in Names, c \in FrameInsertCalls :
    LET cur == Join(scope_stack)
        r == insert(Self, n, c.symbol_type, c.line_number, c.value, c.kwargs)
    IN /\ r.ret = ~Binds(Self, cur, n)
       /\ r.ret =>
            /\ <<cur, n>> \notin Refs(Self)
            /\ Refs(r.self) = Refs(Self) \cup {<<cur, n>>}
            /\ DOMAIN r.self.table = DOMAIN table \cup {cur}
            /\ \A e \in Refs(Self) : r.self.table[e[1]][e[2]] = table[e[1]][e[2]]
            /\ r.self.scope_stack = scope_stack
            /\ r.self.scope_counter = scope_counter
            /\ r.self.current_scope = current_scope
            /\ LET new == r.self.table[cur][n]
               IN /\ new.used = FALSE
                  /\ new.initialized =
                       (IF c.kwargs.initialized # None
                        THEN c.kwargs.initialized[1] ELSE c.value # None)
                  /\ new.name = n /\ new.scope = cur /\ new.value = c.value
                  /\ new.symbol_type = c.symbol_type
                  /\ new.line_number = c.line_number

\* an insert has just succeeded in a nested scope although an ancestor scope
\* binds the same name; the new entry is unused
C11_Witness ==
  /\ op.name = "insert" /\ ret = TRUE
  /\ Len(scope_stack) > 1
  /\ Binds(Self, Join(scope_stack), op.sym)
  /\ ~table[Join(scope_stack)][op.sym].used
  /\ \E q \in ActivePrefixes(Self) \ {Join(scope_stack)} : Binds(Self, q, op.sym)

\* ----------------------------------------------------------------- C12
\* C12: lookup(name, scope=p) returns the entry of bucket p exactly when that
\* bucket contains name and None otherwise, whatever the active stack and
\* without searching an ancestor of p; no used flag and no other state changes.
C12_ScopedLookup ==
  /\ \A n \in Names, p \in DOMAIN table \cup {"global.nowhere"} :
       LET r == lookup(Self, n, Some(p))
       IN /\ r.self = Self
          /\ r.ret = IF Binds(Self, p, n) THEN Some(table[p][n]) ELSE None
  /\ (op.name = "lookup" /\ ~op.resolving /\ ret # None) =>
       \E p \in DOMAIN table : Binds(Self, p, op.sym) /\ ret[1] = table[p][op.sym]

\* a scoped lookup of a path below the root has just returned None for a name
\* that the root binds; an unused entry in an exited scope is still unused
C12_Witness ==
  /\ op.name = "lookup" /\ ~op.resolving /\ ret = None
  /\ Binds(Self, "global", op.sym)
  /\ \E e \in Refs(Self) :
       e[1] \notin ActivePrefixes(Self) /\ ~table[e[1]][e[2]].used

\* ----------------------------------------------------------------- C13
\* C13: delete(name, scope) removes the entry only from the given scope path
\* (the current path when scope is omitted) and returns True; when that bucket
\* does not bind name it returns False and changes nothing, even if an ancestor
\* scope on the active stack binds name.
C13_DeleteExactScope ==
  \A n \in Names, scope \in ClaimScopes(Self) :
    LET target == IF scope # None THEN scope[1] ELSE Join(scope_stack)
        r == delete(Self, n, scope)
    IN IF Binds(Self, target, n)
       THEN /\ r.ret = TRUE
            /\ Refs(r.self) = Refs(Self) \ {<<target, n>>}
            /\ DOMAIN r.self.table = DOMAIN table
            /\ \A e \in Refs(r.self) : r.self.table[e[1]][e[2]] = table[e[1]][e[2]]
            /\ r.self.scope_stack = scope_stack
            /\ r.self.scope_counter = scope_counter
       ELSE r.ret = FALSE /\ r.self = Self

\* a delete has just returned False in a nested scope that does not bind the
\* name, while the root scope on the active stack still binds it
C13_Witness ==
  /\ op.name = "delete" /\ ret = FALSE
  /\ Len(scope_stack) > 1
  /\ ~Binds(Self, Join(scope_stack), op.sym)
  /\ Binds(Self, "global", op.sym)

\* ----------------------------------------------------------------- C14
\* C14: the stack starts at depth 1; enter_scope raises the depth by exactly 1
\* and returns the dotted path of the new stack; exit_scope at depth > 1 lowers
\* the depth by exactly 1 and returns the popped last segment; enter_scope
\* followed at once by exit_scope restores the stack active before.
C14_PushPopBalanced ==
  /\ op.name = "__init__" => Len(scope_stack) = 1
  /\ \A seg \in ClaimScopeNames :
       LET en == enter_scope(Self, seg)
           ex == exit_scope(en.self)
       IN /\ Len(en.self.scope_stack) = Len(scope_stack) + 1
          /\ SubSeq(en.self.scope_stack, 1, Len(scope_stack)) = scope_stack
          /\ en.ret = Join(en.self.scope_stack)
          /\ en.ret = Join(scope_stack) \o "." \o Top(en.self.scope_stack)
          /\ ex.ret = Some(Top(en.self.scope_stack))
          /\ ex.self.scope_stack = scope_stack
  /\ Len(scope_stack) > 1 =>
       LET ex == exit_scope(Self)
       IN /\ Len(ex.self.scope_stack) = Len(scope_stack) - 1
          /\ ex.self.scope_stack = SubSeq(scope_stack, 1, Len(scope_stack) - 1)
          /\ ex.ret = Some(Top(scope_stack))
  /\ op.name = "enter_scope" => (Len(scope_stack) > 1 /\ ret = Join(scope_stack))

\* exit_scope() has just popped the anonymous scope block2 entered at depth 2,
\* back to depth 2; the bucket of the popped scope is still empty
C14_Witness ==
  /\ op.name = "exit_scope" /\ ret = Some(BlockName(2))
  /\ Len(scope_stack) = 2
  /\ LET popped == Join(Append(scope_stack, ret[1]))
     IN popped \in DOMAIN table /\ DOMAIN table[popped] = {}

\* ----------------------------------------------------------------- C15
\* C15: two enter_scope() calls without a name never get the same segment:
\* the n-th such call gets block<n>, numbered by a counter that each anonymous
\* enter_scope raises by one and that nothing else changes (no exit_scope, no
\* named enter_scope, whatever the depth), and different numbers give different
\* names; so sibling anonymous blocks of one parent get different paths.
C15_AnonymousNamesDistinct ==
  /\ [](LET en == enter_scope(Self, None)
            sibling == enter_scope(exit_scope(en.self).self, None)
            nested == enter_scope(en.self, None)
        IN /\ en.self.scope_counter = scope_counter + 1
           /\ Top(en.self.scope_stack) = BlockName(scope_counter + 1)
           /\ \A i, j \in 0..(scope_counter + 2) :
                i # j => BlockName(i) # BlockName(j)
           /\ Top(sibling.self.scope_stack) # Top(en.self.scope_stack)
           /\ Top(nested.self.scope_stack) # Top(en.self.scope_stack)
           /\ sibling.ret # en.ret
           /\ exit_scope(Self).self.scope_counter = scope_counter
           /\ \A seg \in ScopeNames :
                enter_scope(Self, Some(seg)).self.scope_counter = scope_counter)
  /\ [][ /\ scope_counter' >= scope_counter
         /\ scope_counter' # scope_counter =>
              /\ op'.name = "enter_scope"
              /\ scope_counter' = scope_counter + 1
              /\ Top(scope_stack') = BlockName(scope_counter') ]_vars

\* a second anonymous block has just been entered under the root, as a sibling
\* of the exited anonymous block1
C15_Witness ==
  /\ op.name = "enter_scope" /\ ret = "global.block2"
  /\ scope_stack = <<"global", "block2">>
  /\ scope_counter = 2
  /\ "global.block1" \in DOMAIN table

\* ----------------------------------------------------------------- C16
\* C16: immediately after an enter_scope() call without a name, in any
\* reachable state (named and anonymous scopes may have been entered before),
\* the new current scope path is a key of the table and
\* get_symbols_in_scope() returns an empty list.
C16_AnonymousScopeStartsEmpty ==
  LET en == enter_scope(Self, None)
  IN /\ en.ret = Join(en.self.scope_stack)
     /\ en.ret \in DOMAIN en.self.table
     /\ get_symbols_in_scope(en.self, None).ret = <<>>

\* ----------------------------------------------------------------- C17
\* C17: failed resolutions are reported by return value and change nothing: a
\* resolving lookup of a name bound in no active scope returns None (also on an
\* empty table), update of such a name returns False, and neither changes the
\* table, the scope stack or any used flag.
C17_FailedResolutionIsInert ==
  /\ \A n \in Names :
       ~(\E q \in ActivePrefixes(Self) : Binds(Self, q, n)) =>
         /\ lookup(Self, n, None) = [self |-> Self, ret |-> None, ref |-> None]
         /\ \A kwargs \in ClaimUpdateCalls :
              update(Self, n, kwargs) = [self |-> Self, ret |-> FALSE]
  /\ \A n \in Names, kwargs \in ClaimUpdateCalls :
       /\ lookup(NewSymbolTable, n, None).ret = None
       /\ lookup(NewSymbolTable, n, None).self = NewSymbolTable
       /\ update(NewSymbolTable, n, kwargs) = [self |-> NewSymbolTable, ret |-> FALSE]
  /\ (op.name = "update" /\ ret = FALSE) =>
       ~(\E q \in ActivePrefixes(Self) : Binds(Self, q, op.sym))

\* an update that supplied a value has just returned False for a name that
\* only an exited scope binds; the entry there is unused and has its old value
C17_Witness ==
  /\ op.name = "update" /\ ret = FALSE /\ op.kwargs.value # None
  /\ \E p \in DOMAIN table \ ActivePrefixes(Self) :
       /\ Binds(Self, p, op.sym)
       /\ ~table[p][op.sym].used
       /\ table[p][op.sym].value # op.kwargs.value[1]

\* ----------------------------------------------------------------- C18
\* the set of the elements of a list
Elems(seq) == {seq[i] : i \in 1..Len(seq)}

\* no element occurs twice in the list
NoRepeat(seq) == \A i, j \in 1..Len(seq) : i # j => seq[i] # seq[j]

\* C18: get_all_symbols returns every entry stored in any bucket exactly once
\* (its length equals total_symbols), and get_symbols_in_scope(p) returns
\* exactly the entries of bucket p (the current path when p is omitted), an
\* empty list when p has no bucket.
C18_Listings ==
  /\ LET all == get_all_symbols(Self).ret
     IN /\ Elems(all) = {table[e[1]][e[2]] : e \in Refs(Self)}
        /\ Len(all) = Cardinality(Refs(Self))
        /\ Len(all) = get_statistics(Self).total_symbols
        /\ NoRepeat(all)
  /\ \A scope \in ClaimScopes(Self) :
       LET p == IF scope # None THEN scope[1] ELSE Join(scope_stack)
           lst == get_symbols_in_scope(Self, scope).ret
       IN IF p \in DOMAIN table
          THEN /\ Elems(lst) = {table[p][n] : n \in DOMAIN table[p]}
               /\ Len(lst) = Cardinality(DOMAIN table[p])
               /\ NoRepeat(lst)
          ELSE lst = <<>>
  /\ op.name = "get_all_symbols" => ret = get_all_symbols(Self).ret

\* get_all_symbols() has just returned two entries of the same name, one of the
\* current scope and one of a scope that has been exited
C18_Witness ==
  /\ op.name = "get_all_symbols" /\ Len(ret) = 2
  /\ ret[1].name = ret[2].name
  /\ \E i \in 1..2 : ret[i].scope = Join(scope_stack)
  /\ \E i \in 1..2 : ret[i].scope \notin ActivePrefixes(Self)

\* ----------------------------------------------------------------- C19
\* C19: the read operations get_statistics, get_all_symbols and
\* get_symbols_in_scope leave the table, every entry's flags, the scope stack
\* and the scope counter unchanged.
C19_ReadsDoNotMutate ==
  /\ [](/\ get_all_symbols(Self).self = Self
        /\ \A scope \in ClaimScopes(Self) :
             get_symbols_in_scope(Self, scope).self = Self)
  /\ [][ op'.name \in {"get_statistics", "get_all_symbols", "get_symbols_in_scope"}
           => /\ table' = table
              /\ scope_stack' = scope_stack
              /\ scope_counter' = scope_counter
              /\ current_scope' = current_scope ]_vars

\* get_symbols_in_scope has just returned the empty list for a path that has
\* no bucket, at the root of a table whose root has no bucket either, while an
\* exited scope holds an unused entry
C19_Witness ==
  /\ op.name = "get_symbols_in_scope" /\ ret = <<>>
  /\ op.scope = Some("global.nowhere")
  /\ "global.nowhere" \notin DOMAIN table
  /\ "global" \notin DOMAIN table
  /\ \E e \in Refs(Self) : ~table[e[1]][e[2]].used

\* ----------------------------------------------------------------- C20
\* C20: Parser.parse() terminates for every finite token list that ends with
\* an EOF token, including lists in which a '{' has no matching '}': every
\* call of parse() returns.
C20_ParseTerminates == <>(frames = <<>>)

\* ----------------------------------------------------------------- C21
\* the number of calls of parse_block that have not returned
OpenBlocks == Cardinality({i \in 1..Len(frames) : frames[i] = "parse_block"})

\* C21: every enter_scope() made by parse_block is matched by an exit_scope()
\* before parse_block returns, also when the block ends early on a parse error
\* (a malformed statement in it or a missing '}'): the scopes on the stack are
\* those of the blocks still being parsed, so the depth after a block
\* statement is the depth before it.
C21_BlockExitsItsScope == Len(scope_stack) = 1 + OpenBlocks

\* ----------------------------------------------------------------- C23
\* Parser.parse() has returned
Returned == frames = <<>>

\* C23: parsing 'int x=10; { int local=20; x=15; } int z; z = x + 5;' ends
\* with no error and scope depth 1; the root scope holds x (initialized, used)
\* and z (initialized, used), the exited block scope still holds local
\* (initialized, not used); total_symbols = 3 and unused = 1.
C23_EndToEnd ==
  (Returned /\ tokens = TokenList([i \in 1..Len(SampleProgram) |-> Lexeme(SampleProgram[i])])) =>
    /\ errors = <<>>
    /\ Len(scope_stack) = 1
    /\ DOMAIN table = {"global", "global.block1"}
    /\ DOMAIN table["global"] = {"x", "z"}
    /\ DOMAIN table["global.block1"] = {"local"}
    /\ table["global"]["x"].initialized /\ table["global"]["x"].used
    /\ table["global"]["z"].initialized /\ table["global"]["z"].used
    /\ table["global.block1"]["local"].initialized
    /\ ~table["global.block1"]["local"].used
    /\ table["global"]["x"].value = Some("15")
    /\ table["global"]["z"].value = Some("x + 5")
    /\ table["global.block1"]["local"].value = Some("20")
    /\ get_statistics(Self).total_symbols = 3
    /\ get_statistics(Self).unused = 1
    /\ get_statistics(Self).total_scopes = 2

\* parse() has returned from the end-to-end program, with three entries
C23_Witness ==
  /\ Returned
  /\ Len(tokens) = Len(SampleProgram) + 1
  /\ tokens[2].value = "x" /\ tokens[4].value = "10" /\ tokens[8].value = "local"
  /\ Cardinality(Refs(Self)) = 3
  /\ position = Len(SampleProgram)

\* ----------------------------------------------------------------- C22
\* parse_statement is about to dispatch on the current token
AtStatement == frames # <<>> /\ Top(frames) = "parse_statement"

\* the 1-based index of the current token
Here == position + 1

\* the indices of the tokens of the right-hand-side expression of the
\* well-formed declaration or assignment that starts at the current token
RhsIndices ==
  IF DeclEnd(tokens, Here) # 0
  THEN (Here + 3)..(DeclEnd(tokens, Here) - 2)
  ELSE IF AssignEnd(tokens, Here) # 0
  THEN (Here + 2)..(AssignEnd(tokens, Here) - 2)
  ELSE {}

\* the identifiers that occur in it
RhsIdentifiers ==
  {tokens[k].value : k \in {j \in RhsIndices : tokens[j].type = "IDENTIFIER"}}

\* the table after the step
SelfNext ==
  [table |-> table', current_scope |-> current_scope',
   scope_stack |-> scope_stack', scope_counter |-> scope_counter']

\* name is bound in a scope of the active stack
Visible(self, name) == \E q \in ActivePrefixes(self) : Binds(self, q, name)

\* C22: every identifier in the right-hand-side expression of a declaration
\* or of an assignment is resolved by a resolving lookup: when the statement
\* has been parsed, a declared identifier has used = True and an undeclared
\* one has produced an error.
C22_RhsIdentifiersResolved ==
  [][ AtStatement =>
        \A v \in RhsIdentifiers :
          IF Visible(Self, v)
          THEN Resolved(SelfNext, v).used
          ELSE Len(errors') > Len(errors) ]_vars

\* ----------------------------------------------------------------- C24
\* the statement at the current token is handed back to the loop that called
\* parse_statement, with the token after the statement current
ContinuesAfter(end) ==
  /\ position' = end - 1
  /\ frames' = SubSeq(frames, 1, Len(frames) - 1)

\* C24: for a declaration statement 'type name (= expr)? ;' the parser
\* inserts name into the scope active at that point with the identifier
\* token's line and the declared type; when the name is already bound in that
\* scope it records a duplicate-declaration error, the table is left as it
\* was, and parsing continues with the next statement.
C24_DeclarationInserts ==
  [][ (AtStatement /\ DeclEnd(tokens, Here) # 0) =>
        LET end  == DeclEnd(tokens, Here)
            type == tokens[Here].value
            id   == tokens[Here + 1]
            path == get_full_scope_path(Self)
        IN IF Binds(Self, path, id.value)
           THEN /\ table' = table
                /\ Len(errors') = Len(errors) + 1
                /\ errors'[Len(errors')] =
                     "Line " \o ToString(tokens[end].line_number)
                     \o ": Duplicate declaration of variable '" \o id.value \o "'"
                /\ ContinuesAfter(end)
           ELSE /\ Binds(SelfNext, path, id.value)
                /\ table'[path][id.value].symbol_type = type
                /\ table'[path][id.value].line_number = id.line_number
                /\ table'[path][id.value].scope = path
                /\ errors' = errors
                /\ ContinuesAfter(end) ]_vars

\* ----------------------------------------------------------------- C25
\* the text of the tokens first..last, joined by blanks
SourceText(first, last) ==
  JoinSpace([k \in 1..(last - first + 1) |-> tokens[first + k - 1].value])

\* C25: an assignment statement 'name = expr ;' never adds an entry to the
\* table: when the target resolves, the innermost visible binding of the
\* target gets the new value and initialized = True; when it does not resolve,
\* an undeclared-variable error is recorded and no entry is created.
C25_AssignmentUpdates ==
  [][ (AtStatement /\ AssignEnd(tokens, Here) # 0) =>
        LET end    == AssignEnd(tokens, Here)
            target == tokens[Here].value
        IN /\ Refs(SelfNext) = Refs(Self)
           /\ IF Visible(Self, target)
              THEN /\ Resolved(SelfNext, target).value =
                        Some(SourceText(Here + 2, end - 2))
                   /\ Resolved(SelfNext, target).initialized
                   /\ errors' = errors
              ELSE /\ table' = table
                   /\ errors' = Append(errors,
                        "Line " \o ToString(tokens[Here + 1].line_number)
                        \o ": Undeclared variable '" \o target \o "'") ]_vars

\* ----------------------------------------------------------------- C26
\* C26: for a token list in which every statement is well formed and the
\* braces are balanced, at every point of parsing the scope stack depth is 1
\* plus the number of currently open blocks, every block gets a scope path
\* that no other block of the program has, and the depth is 1 when parse
\* returns.
C26_ScopesMirrorBlocks ==
  /\ [](IsProgram(tokens) =>
          /\ Len(scope_stack) = 1 + OpenBlocks
          /\ Returned => Len(scope_stack) = 1)
  /\ [][ (IsProgram(tokens) /\ AtStatement
           /\ expect(PSelf, "DELIMITER", Some("{"))) =>
            /\ Len(scope_stack') = Len(scope_stack) + 1
            /\ Join(scope_stack') \notin DOMAIN table
            /\ Join(scope_stack') \in DOMAIN table' ]_vars

\* parse has returned from a program of three blocks, two of them nested
C26_Witness ==
  /\ IsProgram(tokens) /\ Returned
  /\ scope_counter = 3
  /\ DOMAIN table = {"global.block1", "global.block1.block2", "global.block3"}

\* ----------------------------------------------------------------- C27
\* the number of newline characters before position start of the source
NewlinesBefore(source, start) ==
  Cardinality({i \in 1..start : source[i] = "\n"})

\* C27: for every source text, the line number of each token produced by
\* Lexer.tokenize equals 1 plus the number of newline characters that precede
\* the token's first character in the source (stated for the tokens that have
\* a first character, all but EOF).
C27_LineNumbers ==
  (op.name = "get_next_token" /\ ret.type # "EOF") =>
    ret.line_number = 1 + NewlinesBefore(lexer.source, op.start)

\* ----------------------------------------------------------------- C28
\* what identifies an entry: the fields no operation is to change
Identity(symbol) ==
  <<symbol.name, symbol.symbol_type, symbol.scope, symbol.line_number>>

\* C28: in every reachable state each entry stored at table[p][n] has
\* scope = p and name = n; an entry's name, type, scope and line number never
\* change after insertion, and no operation moves an entry to another bucket
\* (no step both removes an entry from one bucket and adds one to another).
C28_EntriesStayPut ==
  /\ [](\A r \in Refs(Self) :
          /\ table[r[1]][r[2]].scope = r[1]
          /\ table[r[1]][r[2]].name = r[2])
  /\ [][ /\ \A r \in Refs(Self) \cap Refs(SelfNext) :
              Identity(table'[r[1]][r[2]]) = Identity(table[r[1]][r[2]])
         /\ Refs(SelfNext) \subseteq Refs(Self)
              \/ Refs(Self) \subseteq Refs(SelfNext) ]_vars

\* an update has changed an entry of a nested scope while the root holds
\* another entry
C28_Witness ==
  /\ op.name = "update" /\ ret = TRUE
  /\ Len(scope_stack) > 1
  /\ Binds(Self, Join(scope_stack), "x")
  /\ table[Join(scope_stack)]["x"].initialized
  /\ Binds(Self, "global", "y")

\* ----------------------------------------------------------------- C29
\* the scope paths that have been active so far: the root, active from the
\* construction on, and every path entered by enter_scope, which has had its
\* bucket from then on (buckets are never removed, C7); insert adds buckets
\* for active paths only
EverActive == {"global"} \cup DOMAIN table

\* C29: in every reachable state get_statistics()['total_scopes'] equals the
\* number of distinct scope paths that have been active so far, the root
\* 'global' included.
C29_TotalScopes ==
  get_statistics(Self).total_scopes = Cardinality(EverActive)

\* ----------------------------------------------------------------- C30
\* C30: enter_scope(name) with an explicit name whose resulting path already
\* has a bucket keeps that bucket as it is: entries inserted during the
\* earlier, already exited activation of that path are found again by
\* resolving lookup, and insert of one of their names in the re-entered scope
\* returns False.
C30_ReenteredScopeKeepsEntries ==
  \A scope_name \in ScopeNames :
    LET en == enter_scope(Self, Some(scope_name))
    IN en.ret \in DOMAIN table =>
         /\ en.self.table = table
         /\ \A n \in DOMAIN table[en.ret] :
              /\ lookup(en.self, n, None).ref = Some(<<en.ret, n>>)
              /\ lookup(en.self, n, None).ret =
                   Some([table[en.ret][n] EXCEPT !.used = TRUE])
              /\ \A c \in ClaimInsertCalls :
                   LET r == insert(en.self, n, c.symbol_type, c.line_number,
                                   c.value, c.kwargs)
                   IN r.ret = FALSE /\ r.self = en.self

\* the scope block1 has been entered by name a second time and still holds
\* the entry declared in it before
C30_Witness ==
  /\ op.name = "enter_scope"
  /\ scope_counter = 0
  /\ scope_stack = <<"global", "block1">>
  /\ Binds(Self, "global.block1", "x")

\* ----------------------------------------------------------------- C31
\* the error parse_assignment records for the undeclared target at token s;
\* every token is on a line of its own, so the text names the statement
UndeclaredError(s) ==
  "Line " \o ToString(tokens[s + 1].line_number)
  \o ": Undeclared variable '" \o tokens[s].value \o "'"

\* the current token is one of the remaining tokens of a well-formed
\* assignment whose target was found undeclared
InFailedAssignment ==
  \E s \in 1..Len(tokens) :
    /\ AssignEnd(tokens, s) # 0
    /\ s < Here /\ Here < AssignEnd(tokens, s)
    /\ \E k \in 1..Len(errors) : errors[k] = UndeclaredError(s)

\* C31: after an assignment statement whose target is undeclared, the parser
\* records exactly one error for that statement and resumes at the statement
\* that follows its terminating ';': the remaining tokens of the failed
\* statement cause no lookup, no used marking and no further error.
C31_UndeclaredTargetRecovery ==
  [][ /\ (AtStatement /\ AssignEnd(tokens, Here) # 0
          /\ ~Visible(Self, tokens[Here].value)) =>
            /\ errors' = Append(errors, UndeclaredError(Here))
            /\ table' = table
      /\ (AtStatement /\ InFailedAssignment) =>
            /\ errors' = errors
            /\ table' = table ]_vars

\* ----------------------------------------------------------------- C32
\* C32: the attribute current_scope of SymbolTable is never updated by any
\* operation: it is 'global' in every reachable state, so it differs from the
\* path of the active scope stack whenever the depth is greater than 1.
C32_CurrentScopeIsStale ==
  /\ [](/\ current_scope = "global"
        /\ Len(scope_stack) > 1 => current_scope # get_full_scope_path(Self)
        /\ \A scope_name \in ClaimScopeNames :
             enter_scope(Self, scope_name).self.current_scope = current_scope
        /\ exit_scope(Self).self.current_scope = current_scope
        /\ \A n \in Names :
             /\ lookup(Self, n, None).self.current_scope = current_scope
             /\ delete(Self, n, None).self.current_scope = current_scope
             /\ \A c \in ClaimInsertCalls :
                  insert(Self, n, c.symbol_type, c.line_number, c.value,
                         c.kwargs).self.current_scope = current_scope
             /\ \A kwargs \in ClaimUpdateCalls :
                  update(Self, n, kwargs).self.current_scope = current_scope)
  /\ [][current_scope' = current_scope]_vars

\* scopes have been entered and left, and two are open under the root
C32_Witness ==
  /\ op.name = "enter_scope"
  /\ Len(scope_stack) = 3
  /\ scope_counter > 0
  /\ get_full_scope_path(Self) # "global"

====
